---- MODULE Spec2Model ----
(***************************************************************************)
(* Model of the metric evaluation pipeline of model-hub-cli: the metrics   *)
(* ReproducibilityMetric, TreeScoreMetric, ReviewednessMetric and          *)
(* AvailabilityMetric, the flat-file artifact store they read, and the     *)
(* rating endpoints.                                                       *)
(*                                                                         *)
(* Scores are kept in thousandths (0.5 is 500, 1.0 is 1000); a ratio that  *)
(* the code does not round is kept as a pair <<numerator, denominator>>.   *)
(***************************************************************************)
EXTENDS Integers, Sequences, FiniteSets, TLC

VARIABLES
    \* ---- ReproducibilityMetric.evaluate: one call in flight ----
    rPc,        \* position of the call: idle, clone, find, exec, done
    rModel,     \* the model handed to evaluate
    rCloned,    \* "no" (never attempted), "ok", "fail", "raise"
    rCands,     \* number of candidate demo files _find_demo_files returned
    rRuns,      \* how many executed demo files ended in each outcome so far
    rRaised,    \* steps of the call at which an exception was raised
    rOutcome,   \* "none", "returned" or "raised" (propagated to the caller)
    rScore,     \* the returned score, in thousandths
    \* ---- the artifacts directory and the calls that read it ----
    files,      \* content of the file <id>.json, for each artifact id
    tCall,      \* the last call of TreeScoreMetric.evaluate or rate_model
    \* ---- the metrics without state: the last call and its result ----
    vCall,      \* ReviewednessMetric.evaluate
    aCall,      \* AvailabilityMetric.evaluate
    pCall,      \* RampUpMetric.evaluate
    \* ---- the service: rate_model and the reviewedness cache ----
    sNow,       \* time.time(), in seconds
    sCache,     \* _CACHE of integrations/github.py, by repository URL
    sTmpRepro,  \* the directory tmp_repro exists under the working directory
    sCall,      \* the last call of rate_model and what came of it
    \* ---- one ModelPackageAdapter ----
    dAdapter,   \* its links and its three metadata caches
    dCall,      \* the last accessor read and what came of it
    \* ---- src/api/auth.py ----
    uNow,       \* _now(), in seconds
    uTokens,    \* issued_tokens, by token
    uIssued,    \* how many tokens _generate_token has made
    uCall,      \* the last call of authenticate or consume_token
    \* ---- src/api/reset.py ----
    gDir,       \* ARTIFACTS_DIR: whether it exists, and its entries
    gTable,     \* whether the DynamoDB artifacts table holds items
    gCall,      \* the last request to DELETE /reset, or what filled the directory
    \* ---- src/api/artifact_routes.py ----
    kExists,    \* whether artifact_store.ARTIFACTS_DIR exists
    kStore,     \* the document of <id>.json, by artifact id
    kCall,       \* the last request to the artifact routes and its answer
    \* ---- consume_token called from several threads, on one token ----
    cIssued,    \* the token is a key of issued_tokens
    cRemaining, \* remaining_uses of the token's info dict
    cPc,        \* where each thread is in consume_token
    cInfo,      \* whether the thread's info is the dict, or None
    cRead,      \* the remaining_uses the thread loaded in line 148
    cReturned,   \* how many calls have returned the user
    \* ---- store_artifact and _load_artifact on one artifact file ----
    wFile,      \* the bytes of <id>.json, one element per byte
    wPc,        \* where each call of store_artifact is
    wDoc,       \* the document each call of store_artifact writes
    wRead,       \* what the last _load_artifact returned
    \* ---- the package repository of the service and ingest ----
    iDB,        \* _DB of domain/repos.py, by package id
    iMade,      \* how many ids uuid4 has made
    iCall       \* the last request and its answer

reproVars == <<rPc, rModel, rCloned, rCands, rRuns, rRaised, rOutcome, rScore>>

treeVars == <<files, tCall>>

reviewVars == <<vCall>>

availVars == <<aCall>>

rampVars == <<pCall>>

rateVars == <<sNow, sCache, sTmpRepro, sCall>>

adapterVars == <<dAdapter, dCall>>

authVars == <<uNow, uTokens, uIssued, uCall>>

resetVars == <<gDir, gTable, gCall>>

routeVars == <<kExists, kStore, kCall>>

consumeVars == <<cIssued, cRemaining, cPc, cInfo, cRead, cReturned>>

writeVars == <<wFile, wPc, wDoc, wRead>>

ingestVars == <<iDB, iMade, iCall>>

vars ==
    <<reproVars, treeVars, reviewVars, availVars, rampVars, rateVars,
      adapterVars, authVars, resetVars, routeVars, consumeVars, writeVars,
      ingestVars>>

\* What the actions of one component leave alone.
nonIngestVars ==
    <<reproVars, treeVars, reviewVars, availVars, rampVars, rateVars,
      adapterVars, authVars, resetVars, routeVars, consumeVars, writeVars>>
nonWriteVars ==
    <<reproVars, treeVars, reviewVars, availVars, rampVars, rateVars,
      adapterVars, authVars, resetVars, routeVars, consumeVars, ingestVars>>
nonConsumeVars ==
    <<reproVars, treeVars, reviewVars, availVars, rampVars, rateVars,
      adapterVars, authVars, resetVars, routeVars, writeVars, ingestVars>>
nonRouteVars ==
    <<reproVars, treeVars, reviewVars, availVars, rampVars, rateVars,
      adapterVars, authVars, resetVars, consumeVars, writeVars, ingestVars>>
nonReproVars ==
    <<treeVars, reviewVars, availVars, rateVars, rampVars, adapterVars,
      authVars, resetVars, routeVars, consumeVars, writeVars, ingestVars>>
nonTreeVars ==
    <<reproVars, reviewVars, availVars, rateVars, rampVars, adapterVars,
      authVars, resetVars, routeVars, consumeVars, writeVars, ingestVars>>
nonReviewVars ==
    <<reproVars, treeVars, availVars, rateVars, rampVars, adapterVars,
      authVars, resetVars, routeVars, consumeVars, writeVars, ingestVars>>
nonAvailVars ==
    <<reproVars, treeVars, reviewVars, rateVars, rampVars, adapterVars,
      authVars, resetVars, routeVars, consumeVars, writeVars, ingestVars>>
nonRampVars ==
    <<reproVars, treeVars, reviewVars, availVars, rateVars, adapterVars,
      authVars, resetVars, routeVars, consumeVars, writeVars, ingestVars>>
nonAdapterVars ==
    <<reproVars, treeVars, reviewVars, availVars, rampVars, rateVars,
      authVars, resetVars, routeVars, consumeVars, writeVars, ingestVars>>
nonAuthVars ==
    <<reproVars, treeVars, reviewVars, availVars, rampVars, rateVars,
      adapterVars, resetVars, routeVars, consumeVars, writeVars, ingestVars>>
nonResetVars ==
    <<reproVars, treeVars, reviewVars, availVars, rampVars, rateVars,
      adapterVars, authVars, routeVars, consumeVars, writeVars, ingestVars>>
nonRateVars ==
    <<reproVars, treeVars, reviewVars, availVars, rampVars, adapterVars,
      authVars, resetVars, routeVars, consumeVars, writeVars, ingestVars>>

Min(a, b) == IF a < b THEN a ELSE b

(***************************************************************************)
(* ReproducibilityMetric                                                   *)
(***************************************************************************)

\* Bounds of the inputs.
MaxTree == 2
MaxRepoDemoFiles == 6

\* _find_demo_files keeps the first 5 candidates.
\* A variant of _find_demo_files that keeps every match.
NoCandidateLimit == MaxRepoDemoFiles

MaxDemoCandidates == 5

DEMO_FILE_PATTERNS ==
    << "demo.py", "example.py", "main.py", "run.py", "app.py",
       "examples/demo.py", "examples/example.py", "examples/main.py",
       "demo.sh", "run.sh" >>

\* A tree item whose "path" is not a string (None): .lower() raises on it.
NoPath == "<None>"

\* The paths that occur in the file trees drawn as inputs.
TreePaths == {"demo.py", "Demo.py", "src/main.py", "examples/Main.py"}

TreeItems == TreePaths \cup {NoPath}

\* str.lower on the strings of the model.
Lower(s) ==
    CASE s = "Demo.py" -> "demo.py"
      [] s = "examples/Main.py" -> "examples/main.py"
      [] OTHER -> s

SeqsUpTo(S, n) == UNION {[1..k -> S] : k \in 0..n}

Trees == SeqsUpTo(TreeItems, MaxTree)

\* MatchesPattern without lowercasing the path of the tree item.
MatchesPatternCaseSensitive(path) ==
    \E i \in 1..Len(DEMO_FILE_PATTERNS) : path = Lower(DEMO_FILE_PATTERNS[i])

\* path == pattern.lower() for some pattern of the allowlist
MatchesPattern(path) ==
    \E i \in 1..Len(DEMO_FILE_PATTERNS) : Lower(path) = Lower(DEMO_FILE_PATTERNS[i])

\* Index of the first tree item that ends the loop of _has_demo_files: a
\* match (return True) or an item whose path is not a string (raise);
\* 0 when the loop runs to its end.
FirstStop(tree) ==
    IF \E i \in 1..Len(tree) : tree[i] = NoPath \/ MatchesPattern(tree[i])
    THEN CHOOSE i \in 1..Len(tree) :
            /\ (tree[i] = NoPath \/ MatchesPattern(tree[i]))
            /\ \A j \in 1..(i - 1) : ~(tree[j] = NoPath \/ MatchesPattern(tree[j]))
    ELSE 0

\* _has_demo_files: "true", "false" or "raise".
HasDemoFiles(tree) ==
    IF Len(tree) = 0 THEN "false"
    ELSE IF FirstStop(tree) = 0 THEN "false"
    ELSE IF tree[FirstStop(tree)] = NoPath THEN "raise"
    ELSE "true"

\* The value of an attribute that may hold the GitHub metadata.
PrivKinds == {"falsy", "notdict", "dict"}
PubKinds == {"falsy", "notdict", "dict", "raises"}

ReproModels ==
    [priv : PrivKinds, pub : PubKinds, tree : Trees, clone_url : BOOLEAN]

\* Lines 85-93: which attribute supplies gh_meta. "priv", "pub", "none",
\* or "raise" when reading the github_metadata property raises.
LookupGhMeta(m) ==
    IF m.priv = "dict" THEN "priv"
    ELSE IF m.pub = "raises" THEN "raise"
    ELSE IF m.pub = "dict" THEN "pub"
    ELSE "none"

ReproReturn(score) ==
    /\ rPc' = "done"
    /\ rOutcome' = "returned"
    /\ rScore' = score

ReproPropagate ==
    /\ rPc' = "done"
    /\ rOutcome' = "raised"
    /\ rScore' = 0

\* A return from inside "with tempfile.TemporaryDirectory()": the directory
\* is removed on the way out, and an exception of the removal is caught by
\* the except clause of evaluate, which returns 0.5.
ReproReturnInWith(score, cleanupRaises) ==
    IF cleanupRaises
    THEN ReproReturn(500) /\ rRaised' = rRaised \cup {"cleanup"}
    ELSE ReproReturn(score) /\ UNCHANGED rRaised

\* evaluate, lines 82-108: metadata lookup, demo detection, clone URL.
ReproEvaluate(m) ==
    /\ UNCHANGED nonReproVars
    /\ rPc = "idle"
    /\ rModel' = m
    /\ UNCHANGED <<rCloned, rCands, rRuns>>
    /\ IF LookupGhMeta(m) = "raise"
       THEN ReproPropagate /\ rRaised' = {"lookup"}
       ELSE IF LookupGhMeta(m) = "none"
       THEN ReproReturn(0) /\ rRaised' = {}
       ELSE IF HasDemoFiles(m.tree) = "raise"
       THEN ReproPropagate /\ rRaised' = {"detect"}
       ELSE IF HasDemoFiles(m.tree) = "false"
       THEN ReproReturn(0) /\ rRaised' = {}
       ELSE IF ~m.clone_url
       THEN ReproReturn(500) /\ rRaised' = {}
       ELSE /\ rPc' = "clone"
            /\ rRaised' = {}
            /\ UNCHANGED <<rOutcome, rScore>>

\* evaluate, lines 111-113 and 125-132: the temporary directory and
\* _clone_repository. "raise" is an exception raised inside the try block
\* before the clone returns (creating the directory, a patched clone).
ReproClone(outcome, cleanupRaises) ==
    /\ UNCHANGED nonReproVars
    /\ rPc = "clone"
    /\ rCloned' = outcome
    /\ UNCHANGED <<rModel, rCands, rRuns>>
    /\ CASE outcome = "ok" ->
              /\ rPc' = "find"
              /\ UNCHANGED <<rRaised, rOutcome, rScore>>
         [] outcome = "fail" -> ReproReturnInWith(500, cleanupRaises)
         [] outcome = "raise" ->
              ReproReturn(500) /\ rRaised' = rRaised \cup {"clone"}

\* _try_execute_demo, lines 193-197, with _find_demo_files: n files of the
\* clone match the patterns; the first MaxDemoCandidates are kept.
ReproFind(n, raises, cleanupRaises) ==
    /\ UNCHANGED nonReproVars
    /\ rPc = "find"
    /\ UNCHANGED <<rModel, rCloned, rRuns>>
    /\ IF raises
       THEN /\ ReproReturn(500)
            /\ rRaised' = rRaised \cup {"find"}
            /\ UNCHANGED rCands
       ELSE /\ rCands' = Min(n, MaxDemoCandidates)
            /\ IF n = 0
               THEN ReproReturnInWith(500, cleanupRaises)
               ELSE /\ rPc' = "exec"
                    /\ UNCHANGED <<rRaised, rOutcome, rScore>>

RunOutcomes == {"zero", "nonzero", "timeout", "error"}

NoRuns == [o \in RunOutcomes |-> 0]

\* Number of demo files executed so far.
Executed(runs) == runs["zero"] + runs["nonzero"] + runs["timeout"] + runs["error"]

\* _try_execute_demo, lines 199-238: one iteration of the loop over the
\* candidates; "error" is an exception of subprocess.run other than the
\* timeout, caught inside the loop.
ReproExecute(outcome, cleanupRaises) ==
    /\ UNCHANGED nonReproVars
    /\ rPc = "exec"
    /\ Executed(rRuns) < rCands
    /\ rRuns' = [rRuns EXCEPT ![outcome] = @ + 1]
    /\ UNCHANGED <<rModel, rCloned, rCands>>
    /\ LET raised == rRaised \cup (IF outcome = "error" THEN {"exec"} ELSE {})
       IN IF outcome = "zero"
          THEN ReproReturnInWith(1000, cleanupRaises)
          ELSE IF Executed(rRuns) + 1 = rCands
          THEN /\ ReproReturn(500)
               /\ rRaised' = raised \cup (IF cleanupRaises THEN {"cleanup"} ELSE {})
          ELSE /\ rRaised' = raised
               /\ UNCHANGED <<rPc, rOutcome, rScore>>

ReproInit ==
    /\ rPc = "idle"
    /\ rModel = [priv |-> "falsy", pub |-> "falsy", tree |-> << >>, clone_url |-> FALSE]
    /\ rCloned = "no"
    /\ rCands = 0
    /\ rRuns = NoRuns
    /\ rRaised = {}
    /\ rOutcome = "none"
    /\ rScore = 0

ReproNext ==
    \/ \E m \in ReproModels : ReproEvaluate(m)
    \/ \E o \in {"ok", "fail", "raise"}, c \in BOOLEAN : ReproClone(o, c)
    \/ \E n \in 0..MaxRepoDemoFiles, r \in BOOLEAN, c \in BOOLEAN : ReproFind(n, r, c)
    \/ \E o \in RunOutcomes, c \in BOOLEAN : ReproExecute(o, c)


(***************************************************************************)
(* The artifact store and TreeScoreMetric                                  *)
(***************************************************************************)

\* Bound: the artifact files are 1.json .. MaxArtifacts.json.
MaxArtifacts == 2

ArtifactIds == 1..MaxArtifacts

\* Names are sequences of characters, so that str.lower, "in" and split
\* are computed on them.
LowerChar(c) ==
    CASE c = "B" -> "b"
      [] c = "D" -> "d"
      [] c = "T" -> "t"
      [] OTHER -> c

LowerStr(s) == [i \in 1..Len(s) |-> LowerChar(s[i])]

\* sub in s
Contains(sub, s) ==
    \E i \in 0..(Len(s) - Len(sub)) : SubSeq(s, i + 1, i + Len(sub)) = sub

HasSlash(s) == \E i \in 1..Len(s) : s[i] = "/"

\* s.split("/")[-1]
LastSegment(s) ==
    IF HasSlash(s)
    THEN LET k == CHOOSE i \in 1..Len(s) :
                     s[i] = "/" /\ \A j \in (i + 1)..Len(s) : s[j] # "/"
         IN SubSeq(s, k + 1, Len(s))
    ELSE s

\* Lines 271-299 for one parent name.
MatchesParent(artifactName, parent) ==
    LET a == LowerStr(artifactName)
        p == LowerStr(parent)
    IN \/ a = p
       \/ Contains(p, a)
       \/ Contains(a, p)
       \/ /\ HasSlash(a)
          /\ (LastSegment(a) = p \/ Contains(p, LastSegment(a)))
       \/ /\ HasSlash(p)
          /\ (LastSegment(p) = a \/ Contains(LastSegment(p), a))

\* _is_parent_match
IsParentMatch(artifactName, parentNames) ==
    \E i \in 1..Len(parentNames) : MatchesParent(artifactName, parentNames[i])

\* ---- the files of the artifacts directory ----

NameOrgBert == <<"o", "/", "B", "e", "r", "t">>
NameT5 == <<"t", "5">>

\* A JSON document {"metadata": {type, name}, "metadata_json": ..., "data": ...}:
\*   mj    form of "metadata_json": "dict", "str" (a JSON string holding a
\*         dict) or "badstr" (a string that is no JSON)
\*   num   metadata_json has a numeric "net_score", whose value is net
\*   dnum  data has a numeric "net_score", whose value is dnet
\*   url   length of data.url, -1 when data has no "url"
Doc(type, name, mj, num, net, dnum, dnet, url) ==
    [kind |-> "doc", type |-> type, name |-> name, mj |-> mj, num |-> num,
     net |-> net, dnum |-> dnum, dnet |-> dnet, url |-> url]

NoDoc(kind) ==
    [kind |-> kind, type |-> "", name |-> << >>, mj |-> "dict", num |-> FALSE,
     net |-> 0, dnum |-> FALSE, dnet |-> 0, url |-> 0]

\* No file; a file that is no JSON text (JSONDecodeError); a file whose
\* bytes are no text in the encoding of open("r") (UnicodeDecodeError).
AbsentFile == NoDoc("absent")
MalformedFile == NoDoc("malformed")
UndecodableFile == NoDoc("undecodable")

\* The net_score values that occur in stored documents.
NetValues == {-500, 0, 800, 1500}

\* An artifact as create_artifact writes it: metadata and data.url only.
CreatedModel == Doc("model", NameOrgBert, "dict", FALSE, 0, FALSE, 0, 25)

StoredDocs ==
    {Doc("model", NameOrgBert, "dict", TRUE, v, FALSE, 0, 25) : v \in NetValues}
    \cup {Doc("model", NameT5, "str", TRUE, 666, FALSE, 0, 25),
          Doc("model", NameOrgBert, "badstr", FALSE, 0, TRUE, 1500, -1),
          CreatedModel,
          Doc("dataset", NameOrgBert, "dict", TRUE, 800, FALSE, 0, 25)}

\* ---- the models handed to TreeScoreMetric.evaluate ----

ParentBert == <<"b", "e", "r", "t">>
ParentGT5 == <<"g", "/", "T", "5">>

\*   hf       hf_metadata is a non-empty mapping
\*   card     cardData.base_model, as the list of its strings
\*   top      the top-level base_model (at most one)
\*   index    "none", "bad" (model_index is no JSON) or "dict"
\*   indexed  the strings under base_model/parent_model/base of model_index
\*   modelId  hf_metadata["modelId"]
\*   tagged   str(tags) contains "squad", "glue" or "mnli"
Child(hf, card, top, index, indexed, modelId, tagged) ==
    [hf |-> hf, card |-> card, top |-> top, index |-> index,
     indexed |-> indexed, modelId |-> modelId, tagged |-> tagged]


NoChild == Child(FALSE, << >>, << >>, "none", << >>, << >>, FALSE)

Children ==
    LET distilBert == <<"D", "i", "s", "t", "i", "l", "B", "e", "r", "t">>
        bertTuned == <<"b", "e", "r", "t", "-", "x">>
        gpt == <<"g", "p", "t", "2">>
        other == <<"x", "l", "n", "e", "t">>
    IN {NoChild,
        Child(TRUE, << >>, << >>, "none", << >>, distilBert, FALSE),
        Child(TRUE, << >>, << >>, "bad", << >>, bertTuned, TRUE),
        Child(TRUE, << >>, << >>, "none", << >>, gpt, FALSE),
        Child(TRUE, <<ParentBert>>, << >>, "none", << >>, other, FALSE),
        Child(TRUE, <<ParentBert>>, <<ParentGT5>>, "none", << >>, other, FALSE),
        Child(TRUE, << >>, <<ParentBert>>, "dict", <<ParentBert, ParentGT5>>, other, FALSE),
        Child(TRUE, << >>, <<ParentGT5>>, "bad", <<ParentBert>>, other, FALSE)}

RECURSIVE AppendNew(_, _)
\* Appends the names of xs that names does not hold yet (lines 161, 176).
AppendNew(names, xs) ==
    IF xs = << >> THEN names
    ELSE AppendNew(IF \E i \in 1..Len(names) : names[i] = Head(xs)
                   THEN names ELSE Append(names, Head(xs)),
                   Tail(xs))

\* _extract_parent_models
ExtractParentModels(child) ==
    IF ~child.hf THEN << >>
    ELSE LET fromCard == child.card
             fromTop == AppendNew(fromCard, child.top)
         IN IF child.index = "dict"
            THEN AppendNew(fromTop, child.indexed)
            ELSE fromTop

\* The base model names of evaluate, lines 83-96.
BaseModels ==
    { <<"b", "e", "r", "t">>,
      <<"g", "p", "t">>,
      <<"t", "5">>,
      <<"r", "o", "b", "e", "r", "t", "a">>,
      <<"d", "i", "s", "t", "i", "l", "b", "e", "r", "t">>,
      <<"a", "l", "b", "e", "r", "t">>,
      <<"e", "l", "e", "c", "t", "r", "a">>,
      <<"b", "a", "r", "t">>,
      <<"p", "e", "g", "a", "s", "u", "s">>,
      <<"l", "l", "a", "m", "a">>,
      <<"m", "i", "s", "t", "r", "a", "l">>,
      <<"f", "a", "l", "c", "o", "n">> }

\* evaluate, lines 78-104: the fallback when no parent is declared.
HeuristicScore(child) ==
    LET modelId == IF child.hf THEN LowerStr(child.modelId) ELSE << >>
        tagged == child.hf /\ child.tagged
    IN IF \E b \in BaseModels : Contains(b, modelId)
       THEN IF \/ Contains(<<"d", "i", "s", "t", "i", "l">>, modelId)
               \/ Contains(<<"m", "i", "n", "i">>, modelId)
               \/ Contains(<<"s", "m", "a", "l", "l">>, modelId)
            THEN 850
            ELSE IF tagged THEN 750 ELSE 500
       ELSE 0

\* A variant that rates a matching parent without a stored net_score at
\* the default of 0.5 instead of leaving it out.
FileScoresRatingParents(f, parentNames) ==
    IF f.kind # "doc" THEN << >>
    ELSE IF f.type # "model" THEN << >>
    ELSE IF f.name = << >> THEN << >>
    ELSE IF ~IsParentMatch(f.name, parentNames) THEN << >>
    ELSE IF f.mj = "badstr" THEN << >>
    ELSE IF f.num /\ f.net > 0 THEN <<f.net>>
    ELSE <<500>>

\* What one file adds to parent_scores (lines 206-244): << >> or <<score>>.
FileScores(f, parentNames) ==
    IF f.kind # "doc" THEN << >>
    ELSE IF f.type # "model" THEN << >>
    ELSE IF f.name = << >> THEN << >>
    ELSE IF ~IsParentMatch(f.name, parentNames) THEN << >>
    ELSE IF f.mj = "badstr" THEN << >>
    ELSE IF f.num /\ f.net > 0 THEN <<f.net>>
    ELSE << >>

RECURSIVE GetParentScores(_, _, _)
\* _get_parent_scores, lines 203-253: the files are read in the order the
\* directory lists them; an exception that is neither a JSONDecodeError nor
\* an IOError leaves the loop and the scores found so far are returned.
GetParentScores(fs, order, parentNames) ==
    IF order = << >> THEN << >>
    ELSE LET f == fs[Head(order)]
         IN IF f.kind = "undecodable" THEN << >>
            ELSE FileScores(f, parentNames)
                     \o GetParentScores(fs, Tail(order), parentNames)

RECURSIVE SumSeq(_)
SumSeq(s) == IF s = << >> THEN 0 ELSE Head(s) + SumSeq(Tail(s))

\* round(total / n, 2) for total in thousandths: the nearest multiple of
\* 0.01, the even one when both are equally near.
Round2(total, n) ==
    LET q == total \div (10 * n)
        r == total - q * 10 * n
    IN IF 2 * r < 10 * n THEN 10 * q
       ELSE IF 2 * r > 10 * n THEN 10 * (q + 1)
       ELSE IF q % 2 = 0 THEN 10 * q ELSE 10 * (q + 1)

\* TreeScoreMetric.evaluate for the files fs listed in the given order.
TreeScore(child, fs, order) ==
    LET parentNames == ExtractParentModels(child)
    IN IF parentNames = << >> THEN HeuristicScore(child)
       ELSE LET scores == GetParentScores(fs, order, parentNames)
            IN IF scores = << >> THEN 0
               ELSE Round2(SumSeq(scores), Len(scores))

\* The orders in which the directory may list its files.
Orders ==
    {o \in [1..MaxArtifacts -> ArtifactIds] :
        \A i, j \in 1..MaxArtifacts : i # j => o[i] # o[j]}

\* ---- rate_model of src/api/model.py ----

\* _load_artifact: "none" (None), "raise" or "doc".
LoadArtifact(f) ==
    CASE f.kind = "absent" -> "none"
      [] f.kind = "malformed" -> "none"
      [] f.kind = "undecodable" -> "raise"
      [] OTHER -> "doc"

\* _base_score_from_artifact
BaseScoreFromArtifact(f) ==
    LET length == IF f.url < 0 THEN 0 ELSE f.url
    IN IF length % 50 = 0 THEN 100 ELSE (length % 50) * 20

\* net_score of _build_model_rating
RatingNetScore(f) == IF f.dnum THEN f.dnet ELSE BaseScoreFromArtifact(f)

\* ---- actions ----

NoCall ==
    [op |-> "none", child |-> NoChild, id |-> 0, status |-> 0, score |-> 0]

\* store_artifact
StoreArtifact(id, doc) ==
    /\ files' = [files EXCEPT ![id] = doc]
    /\ UNCHANGED tCall
    /\ UNCHANGED nonTreeVars

\* store_artifact that ends between open("w") and json.dump: the file is
\* left truncated.
StoreArtifactInterrupted(id) ==
    /\ files' = [files EXCEPT ![id] = MalformedFile]
    /\ UNCHANGED tCall
    /\ UNCHANGED nonTreeVars

\* A file of the directory that was not written as text.
ForeignFile(id) ==
    /\ files' = [files EXCEPT ![id] = UndecodableFile]
    /\ UNCHANGED tCall
    /\ UNCHANGED nonTreeVars

\* delete_artifact: the file is unlinked when it holds a document of the
\* type of the request.
DeleteArtifact(type, id) ==
    /\ files[id].kind = "doc"
    /\ files[id].type = type
    /\ files' = [files EXCEPT ![id] = AbsentFile]
    /\ UNCHANGED tCall
    /\ UNCHANGED nonTreeVars

\* TreeScoreMetric.evaluate
TreeEvaluate(child, order) ==
    /\ tCall' = [op |-> "tree", child |-> child, id |-> 0, status |-> 0,
                 score |-> TreeScore(child, files, order)]
    /\ UNCHANGED files
    /\ UNCHANGED nonTreeVars

\* rate_model: GET /artifact/model/{id}/rate
RateModel(id) ==
    /\ LET f == files[id]
           status == IF LoadArtifact(f) = "raise" THEN 500
                     ELSE IF LoadArtifact(f) = "none" THEN 404
                     ELSE IF f.type # "model" THEN 400
                     ELSE 200
       IN tCall' = [NoCall EXCEPT !.op = "rate", !.id = id, !.status = status,
                        !.score = IF status = 200 THEN RatingNetScore(f) ELSE 0]
    /\ UNCHANGED files
    /\ UNCHANGED nonTreeVars

TreeInit ==
    /\ files = [i \in ArtifactIds |-> AbsentFile]
    /\ tCall = NoCall

TreeNext ==
    \/ \E id \in ArtifactIds, doc \in StoredDocs : StoreArtifact(id, doc)
    \/ \E id \in ArtifactIds : StoreArtifactInterrupted(id)
    \/ \E id \in ArtifactIds : ForeignFile(id)
    \/ \E id \in ArtifactIds, type \in {"model", "dataset"} : DeleteArtifact(type, id)
    \/ \E child \in Children, order \in Orders : TreeEvaluate(child, order)
    \/ \E id \in ArtifactIds : RateModel(id)

(***************************************************************************)
(* ReviewednessMetric                                                      *)
(* A result is a pair <<num, den>> standing for num / den.                 *)
(***************************************************************************)

\* Bound: the longest list of pull requests in the GitHub metadata.
MaxPRs == 2

\* The fields of a pull request that _calculate_reviewedness reads:
\* merged_at set, comments, review_comments, and whether
\* requested_reviewers and requested_teams are non-empty.
PR(merged, comments, review_comments, reviewers, teams) ==
    [merged |-> merged, comments |-> comments,
     review_comments |-> review_comments, reviewers |-> reviewers,
     teams |-> teams]

PullRequests ==
    {PR(m, 0, 0, FALSE, FALSE) : m \in BOOLEAN}
    \cup {PR(m, 2, 0, FALSE, FALSE) : m \in BOOLEAN}
    \cup {PR(m, 0, 1, FALSE, FALSE) : m \in BOOLEAN}
    \cup {PR(m, 0, 0, TRUE, FALSE) : m \in BOOLEAN}
    \cup {PR(m, 0, 0, FALSE, TRUE) : m \in BOOLEAN}

PRLists == SeqsUpTo(PullRequests, MaxPRs)

\* hf_metadata: likes, downloads and library_name (absent keys read as 0
\* and None; hf_metadata None reads as {}).
HfMetas ==
    [likes : {0, 10, 11, 30, 31, 100, 101},
     downloads : {0, 10000, 10001, 50000, 50001},
     library_name : {"transformers", "diffusers", "other"}]

HfEmpty == [likes |-> 0, downloads |-> 0, library_name |-> "other"]
HfPopular == [likes |-> 101, downloads |-> 50001, library_name |-> "transformers"]

\* gh: github_metadata is falsy ("falsy"), has no "pull_requests" key
\* ("nokey"), or holds the list prs ("prs").
ReviewModels ==
    {[gh |-> "falsy", prs |-> << >>, hf |-> h] : h \in HfMetas}
    \cup {[gh |-> "nokey", prs |-> << >>, hf |-> h] : h \in {HfEmpty, HfPopular}}
    \cup {[gh |-> "prs", prs |-> p, hf |-> h] : p \in PRLists, h \in {HfEmpty, HfPopular}}

\* _heuristic_score, in thousandths
ReviewHeuristicScore(hf) ==
    LET byLikes == IF hf.likes > 100 THEN 500
                   ELSE IF hf.likes > 30 THEN 300
                   ELSE IF hf.likes > 10 THEN 100
                   ELSE 0
        byDownloads == IF hf.downloads > 50000 THEN 400
                       ELSE IF hf.downloads > 10000 THEN 200
                       ELSE 0
        byLibrary == IF hf.library_name \in {"transformers", "diffusers"}
                     THEN 200 ELSE 0
    IN Min(1000, byLikes + byDownloads + byLibrary)

\* A variant that takes every pull request of the list for merged.
IsListed(pr) == TRUE

IsMerged(pr) == pr.merged

HasReview(pr) ==
    \/ pr.comments > 0
    \/ pr.review_comments > 0
    \/ pr.reviewers
    \/ pr.teams

\* _calculate_reviewedness
CalculateReviewedness(prs) ==
    IF prs = << >> THEN <<0, 1>>
    ELSE LET merged_prs == SelectSeq(prs, IsMerged)
         IN IF merged_prs = << >> THEN <<0, 1>>
            ELSE <<Len(SelectSeq(merged_prs, HasReview)), Len(merged_prs)>>

\* ReviewednessMetric.evaluate
Reviewedness(m) ==
    IF m.gh = "falsy" THEN <<ReviewHeuristicScore(m.hf), 1000>>
    ELSE IF m.gh = "nokey" \/ m.prs = << >> THEN <<0, 1>>
    ELSE CalculateReviewedness(m.prs)

NoReviewCall == [op |-> "none", model |-> [gh |-> "falsy", prs |-> << >>, hf |-> HfEmpty],
                 result |-> <<0, 1>>]

ReviewEvaluate(m) ==
    /\ vCall' = [op |-> "review", model |-> m, result |-> Reviewedness(m)]
    /\ UNCHANGED nonReviewVars

ReviewInit == vCall = NoReviewCall

ReviewNext == \E m \in ReviewModels : ReviewEvaluate(m)

(***************************************************************************)
(* AvailabilityMetric                                                      *)
(***************************************************************************)

\* A link is None, "" or a URL; a metadata is None, {} or a non-empty dict;
\* a count of hf_metadata is absent, 0 or positive.
AvailModels ==
    [codeLink : {"none", "empty", "url"},
     github_metadata : {"none", "empty", "dict"},
     datasetLink : {"none", "empty", "url"},
     dataset_metadata : {"none", "empty", "dict"},
     hf : BOOLEAN,
     downloads : {"absent", "zero", "positive"},
     likes : {"absent", "zero", "positive"}]

Truthy(kind) == kind \in {"url", "dict", "positive"}

\* A variant that looks at the downloads only.
HasDownloads(m) == m.hf /\ Truthy(m.downloads)

\* bool(hf_meta.get("downloads") or hf_meta.get("likes"))
HasMeaningfulHf(m) == m.hf /\ (Truthy(m.downloads) \/ Truthy(m.likes))

\* AvailabilityMetric.evaluate: successful_checks / total_checks, or the
\* fallback in thousandths.
Availability(m) ==
    LET code_total == IF Truthy(m.codeLink) THEN 1 ELSE 0
        code_ok == IF Truthy(m.codeLink) /\ Truthy(m.github_metadata) THEN 1 ELSE 0
        data_total == IF Truthy(m.datasetLink) THEN 1 ELSE 0
        data_ok == IF Truthy(m.datasetLink) /\ Truthy(m.dataset_metadata) THEN 1 ELSE 0
        total_checks == code_total + data_total
        successful_checks == code_ok + data_ok
    IN IF total_checks = 0
       THEN IF HasMeaningfulHf(m) THEN <<700, 1000>> ELSE <<0, 1>>
       ELSE <<successful_checks, total_checks>>

NoAvailCall ==
    [op |-> "none",
     model |-> [codeLink |-> "none", github_metadata |-> "none",
                datasetLink |-> "none", dataset_metadata |-> "none",
                hf |-> FALSE, downloads |-> "absent", likes |-> "absent"],
     result |-> <<0, 1>>]

AvailabilityEvaluate(m) ==
    /\ aCall' = [op |-> "availability", model |-> m, result |-> Availability(m)]
    /\ UNCHANGED nonAvailVars

AvailInit == aCall = NoAvailCall

AvailNext == \E m \in AvailModels : AvailabilityEvaluate(m)

(***************************************************************************)
(* RampUpMetric                                                            *)
(***************************************************************************)

\* hf_metadata as RampUpMetric reads it:
\*   readme      "none", "str" or "other" (a value that is no string)
\*   readme_len  len(str(readme))
\*   widget      widgetData or cardData.widget is truthy
\*   pipeline    pipeline_tag is truthy
\*   downloads, likes
\*   arxiv       some tag contains "arxiv:"
RampModels ==
    {[readme |-> r[1], readme_len |-> r[2], widget |-> w, pipeline |-> t,
      downloads |-> pop[1], likes |-> pop[2], arxiv |-> x] :
        r \in {<<"none", 0>>, <<"str", 0>>, <<"str", 100>>, <<"str", 101>>,
               <<"str", 1001>>, <<"str", 5001>>, <<"other", 101>>},
        w \in BOOLEAN, t \in BOOLEAN,
        pop \in {<<0, 0>>, <<1001, 0>>, <<0, 11>>, <<10001, 0>>, <<0, 51>>},
        x \in BOOLEAN}

\* What LLMClient.send_prompt gives: None, a text whose first line is the
\* float value, or a text whose first line is no float.
LlmResponses ==
    {[kind |-> "none", value |-> 0], [kind |-> "garbled", value |-> 0]}
    \cup {[kind |-> "float", value |-> v] : v \in {0, 600, 1000}}

\* LLMClient.extract_score: the float of the first line, 0.0 without one.
ExtractScore(response) ==
    IF response.kind = "float" THEN response.value ELSE 0

\* _heuristic_score
RampHeuristicScore(m) ==
    LET byReadme == IF m.readme = "none" \/ m.readme_len = 0 THEN 0
                    ELSE IF m.readme_len > 5000 THEN 200
                    ELSE IF m.readme_len > 1000 THEN 150
                    ELSE IF m.readme_len > 100 THEN 80
                    ELSE 0
        byWidget == IF m.widget THEN 150 ELSE 0
        byPipeline == IF m.pipeline THEN 120 ELSE 0
        byPopularity == IF m.downloads > 10000 \/ m.likes > 50 THEN 200
                        ELSE IF m.downloads > 1000 \/ m.likes > 10 THEN 120
                        ELSE 0
        byArxiv == IF m.arxiv THEN 80 ELSE 0
    IN Min(850, byReadme + byWidget + byPipeline + byPopularity + byArxiv)

\* A variant that keeps the heuristic for a scorer answer of 0.0 as well.
LlmFailedOrZero(score, response) == score = 0

\* Line 58: score == 0.0 and response is None
LlmFailed(score, response) == score = 0 /\ response.kind = "none"

\* RampUpMetric.evaluate
RampUp(m, response) ==
    IF m.readme # "str" \/ m.readme_len = 0 THEN RampHeuristicScore(m)
    ELSE IF LlmFailed(ExtractScore(response), response)
         THEN RampHeuristicScore(m)
         ELSE ExtractScore(response)

\* The scorer is asked only when there is a README text.
RampUpEvaluate(m, response) ==
    /\ (m.readme # "str" \/ m.readme_len = 0) => response.kind = "none"
    /\ pCall' = [op |-> "rampup", model |-> m, response |-> response,
                 score |-> RampUp(m, response)]
    /\ UNCHANGED nonRampVars

RampInit ==
    pCall = [op |-> "none",
             model |-> [readme |-> "none", readme_len |-> 0, widget |-> FALSE,
                        pipeline |-> FALSE, downloads |-> 0, likes |-> 0,
                        arxiv |-> FALSE],
             response |-> [kind |-> "none", value |-> 0], score |-> 0]

RampNext == \E m \in RampModels, response \in LlmResponses : RampUpEvaluate(m, response)

(***************************************************************************)
(* The service: rate_model of service/app/domain/metrics.py and            *)
(* reviewedness_score of service/app/integrations/github.py.               *)
(* Scores of the service are in ten-thousandths (round(score, 4)).         *)
(***************************************************************************)

\* Bound: the clock runs for MaxTicks steps of TickSeconds.
MaxTicks == 3

TickSeconds == 300

\* ttl_s of _cache_put
CacheTtl == 600

\* meta["repo_url"]: meta empty, no repository key, a URL without
\* "github.com", a GitHub repository URL.
RepoUrlKinds == {"no_meta", "no_url", "invalid_url", "valid_url"}

\* The URLs that make a cache key.
RepoUrls == {"invalid_url", "valid_url"}

\* meta["how_to_run"] and what running it does.
RunKinds ==
    {"none", "forbidden", "zero", "nonzero_output", "nonzero_traceback",
     "timeout", "error"}

Packages ==
    {pkg \in [repo_url : RepoUrlKinds, run : RunKinds] :
        pkg.repo_url = "no_meta" => pkg.run = "none"}

\* run_reproducibility_check
RunReproducibilityCheck(pkg) ==
    CASE pkg.run = "none" -> 0
      [] pkg.run = "forbidden" -> 0
      [] pkg.run = "zero" -> 10000
      [] pkg.run = "nonzero_output" -> 5000
      [] pkg.run = "nonzero_traceback" -> 0
      [] pkg.run = "timeout" -> 5000
      [] OTHER -> 0

\* One closed pull request of the GitHub answer:
\*   merged   merged_at is set and within the lookback window
\*   number   the object has the key "number"
\*   reviews  what the request for its reviews gives: "approved",
\*            "not_approved", "forbidden" (403) or "error" (a
\*            RequestException)
\*   busy     requested_reviewers is non-empty or commits > 1
ServicePR(merged, number, reviews, busy) ==
    [merged |-> merged, number |-> number, reviews |-> reviews, busy |-> busy]


\* What GitHub answers to the request for the pull requests: a
\* RequestException, a JSON body that is no list of objects, or a list.
GithubAnswers ==
    LET unmerged == ServicePR(FALSE, TRUE, "approved", FALSE)
        approved == ServicePR(TRUE, TRUE, "approved", FALSE)
        notApproved == ServicePR(TRUE, TRUE, "not_approved", FALSE)
        forbiddenBusy == ServicePR(TRUE, TRUE, "forbidden", TRUE)
        forbiddenIdle == ServicePR(TRUE, TRUE, "forbidden", FALSE)
        reviewsError == ServicePR(TRUE, TRUE, "error", FALSE)
        noNumber == ServicePR(TRUE, FALSE, "approved", FALSE)
    IN {[kind |-> "request_error", prs |-> << >>],
        [kind |-> "not_a_list", prs |-> << >>]}
       \cup {[kind |-> "list", prs |-> prs] :
               prs \in {<< >>,
                        <<unmerged>>,
                        <<approved>>,
                        <<unmerged, notApproved>>,
                        <<approved, notApproved>>,
                        <<forbiddenBusy, forbiddenIdle>>,
                        <<approved, reviewsError>>,
                        <<noNumber>>,
                        <<approved, noNumber>>,
                        <<approved, approved, notApproved>>}}

\* pr.get("merged_at") and pr["merged_at"] >= since
InWindow(pr) == pr.merged

RECURSIVE CountReviews(_, _, _)
\* The loop of lines 96-112: "raise" when a KeyError leaves it, "error"
\* when a RequestException does, else the counts.
CountReviews(prs, reviewed, considered) ==
    IF prs = << >>
    THEN [status |-> "ok", reviewed |-> reviewed, considered |-> considered]
    ELSE LET pr == Head(prs)
         IN IF ~pr.number
            THEN [status |-> "raise", reviewed |-> reviewed, considered |-> considered]
            ELSE IF pr.reviews = "error"
            THEN [status |-> "error", reviewed |-> reviewed, considered |-> considered]
            ELSE IF pr.reviews = "forbidden"
            THEN CountReviews(Tail(prs),
                              reviewed + (IF pr.busy THEN 1 ELSE 0),
                              considered + 1)
            ELSE CountReviews(Tail(prs),
                              reviewed + (IF pr.reviews = "approved" THEN 1 ELSE 0),
                              considered + 1)

\* The nearest integer to num / den (no case of the model is a tie).
RoundDiv(num, den) == (2 * num + den) \div (2 * den)

\* Lines 82-126 for one answer: the status and the score.
ScoreAnswer(answer) ==
    IF answer.kind = "request_error" THEN [status |-> "ok", score |-> 0]
    ELSE IF answer.kind = "not_a_list" THEN [status |-> "raise", score |-> 0]
    ELSE LET prs == SelectSeq(answer.prs, InWindow)
         IN IF prs = << >> THEN [status |-> "ok", score |-> 0]
            ELSE LET c == CountReviews(prs, 0, 0)
                 IN IF c.status = "raise" THEN [status |-> "raise", score |-> 0]
                    ELSE IF c.status = "error" THEN [status |-> "ok", score |-> 0]
                    ELSE [status |-> "ok",
                          score |-> RoundDiv(c.reviewed * (IF c.considered < 3
                                                           THEN 9000 ELSE 10000),
                                             c.considered)]

NoEntry == [has |-> FALSE, value |-> 0, exp |-> 0]

\* A variant that never lets an entry expire.
CacheHitForEver(cache, key, now) == cache[key].has

\* _cache_get: the entry counts when it is there and e.exp < now is false.
CacheHit(cache, key, now) == cache[key].has /\ ~(cache[key].exp < now)

\* _cache_get pops an entry it finds expired.
CacheAfterGet(cache, key, now) ==
    IF cache[key].has /\ cache[key].exp < now
    THEN [cache EXCEPT ![key] = NoEntry]
    ELSE cache

\* _cache_put
CachePut(cache, key, value, now) ==
    [cache EXCEPT ![key] = [has |-> TRUE, value |-> value, exp |-> now + CacheTtl]]

\* reviewedness_score: the status, the score, the cache it leaves and
\* whether a request went to GitHub.
ReviewednessScore(url, answer, cache, now) ==
    IF CacheHit(cache, url, now)
    THEN [status |-> "ok", score |-> cache[url].value, cache |-> cache,
          requested |-> FALSE]
    ELSE LET missed == CacheAfterGet(cache, url, now)
         IN IF url = "invalid_url"
            THEN [status |-> "ok", score |-> 0,
                  cache |-> CachePut(missed, url, 0, now), requested |-> FALSE]
            ELSE LET r == ScoreAnswer(answer)
                 IN IF r.status = "raise"
                    THEN [status |-> "raise", score |-> 0, cache |-> missed,
                          requested |-> TRUE]
                    ELSE [status |-> "ok", score |-> r.score,
                          cache |-> CachePut(missed, url, r.score, now),
                          requested |-> TRUE]

\* metric_reviewedness_from_meta
MetricReviewednessFromMeta(pkg, answer, cache, now) ==
    IF pkg.repo_url \in {"no_meta", "no_url"}
    THEN [status |-> "ok", score |-> 0, cache |-> cache, requested |-> FALSE]
    ELSE ReviewednessScore(pkg.repo_url, answer, cache, now)

\* The Scores that rate_model builds.
ServiceScores(reproducibility, reviewedness) ==
    [availability |-> 8000, bus_factor |-> 7000, code_quality |-> 6500,
     dataset_quality |-> 7500, ramp_up |-> 6000, license |-> 9000,
     latency |-> 8000, reproducibility |-> reproducibility,
     reviewedness |-> reviewedness, treescore |-> 7000]

NoScores == ServiceScores(0, 0)

NoServiceCall ==
    [op |-> "none", pkg |-> [repo_url |-> "no_meta", run |-> "none"],
     status |-> "none", requested |-> FALSE, scores |-> NoScores]

\* run_reproducibility_check, lines 36-37: a command that is there and not
\* forbidden is run in <cwd>/tmp_repro, made when missing and never removed.
MakesWorkingDir(pkg) == pkg.run \notin {"none", "forbidden"}

\* rate_model of the service
ServiceRateModel(pkg, answer) ==
    /\ LET rev == MetricReviewednessFromMeta(pkg, answer, sCache, sNow)
       IN /\ sCache' = rev.cache
          /\ sCall' = IF rev.status = "raise"
                      THEN [op |-> "rate", pkg |-> pkg, status |-> "raised",
                            requested |-> rev.requested, scores |-> NoScores]
                      ELSE [op |-> "rate", pkg |-> pkg, status |-> "returned",
                            requested |-> rev.requested,
                            scores |-> ServiceScores(RunReproducibilityCheck(pkg),
                                                     rev.score)]
    /\ sTmpRepro' = (sTmpRepro \/ MakesWorkingDir(pkg))
    /\ UNCHANGED sNow
    /\ UNCHANGED nonRateVars

\* Time passes.
Tick ==
    /\ sNow + TickSeconds <= MaxTicks * TickSeconds
    /\ sNow' = sNow + TickSeconds
    /\ UNCHANGED <<sCache, sTmpRepro, sCall>>
    /\ UNCHANGED nonRateVars

RateInit ==
    /\ sNow = 0
    /\ sCache = [u \in RepoUrls |-> NoEntry]
    /\ sTmpRepro = FALSE
    /\ sCall = NoServiceCall

RateNext ==
    \/ \E pkg \in Packages, answer \in GithubAnswers : ServiceRateModel(pkg, answer)
    \/ Tick

(***************************************************************************)
(* ModelPackageAdapter of service/app/domain/cli_adapter.py                *)
(***************************************************************************)

Accessors == {"hf_metadata", "github_metadata", "dataset_metadata"}

\* What fetcher.fetch(link) does: it raises, or returns None, {} or a
\* non-empty mapping.
FetchOutcomes == {"raise", "none", "empty", "data"}

\* The link the accessor fetches from is truthy (modelLink always is).
HasLink(adapter, accessor) ==
    CASE accessor = "hf_metadata" -> TRUE
      [] accessor = "github_metadata" -> adapter.codeLink
      [] OTHER -> adapter.datasetLink

\* A variant without the try/except around the fetch.
FetchedUnguarded(outcome) ==
    IF outcome = "raise" THEN "raise"
    ELSE IF outcome = "data" THEN "data" ELSE "empty"

\* What the accessor puts in its cache: fetch(...) or {}, and {} when the
\* fetch raises.
Fetched(outcome) == IF outcome = "data" THEN "data" ELSE "empty"

NewAdapter(codeLink, datasetLink) ==
    [codeLink |-> codeLink, datasetLink |-> datasetLink,
     cache |-> [a \in Accessors |-> "unset"]]

NoAccessorCall == [op |-> "none", fetch |-> "not_fetched", status |-> "none",
                   value |-> "empty"]

\* ModelPackageAdapter.__init__
Construct(codeLink, datasetLink) ==
    /\ dAdapter' = NewAdapter(codeLink, datasetLink)
    /\ dCall' = NoAccessorCall
    /\ UNCHANGED nonAdapterVars

\* One read of hf_metadata, github_metadata or dataset_metadata.
ReadMetadata(accessor, outcome) ==
    LET fetches == dAdapter.cache[accessor] = "unset" /\ HasLink(dAdapter, accessor)
        cached == IF fetches THEN Fetched(outcome) ELSE dAdapter.cache[accessor]
    IN /\ ~fetches => outcome = "none"
       /\ dAdapter' = IF cached = "raise" THEN dAdapter
                      ELSE [dAdapter EXCEPT !.cache[accessor] = cached]
       /\ dCall' = [op |-> accessor,
                    fetch |-> IF fetches THEN outcome ELSE "not_fetched",
                    status |-> IF cached = "raise" THEN "raised" ELSE "returned",
                    value |-> IF cached = "data" THEN "data" ELSE "empty"]
       /\ UNCHANGED nonAdapterVars

AdapterInit ==
    /\ dAdapter = NewAdapter(FALSE, FALSE)
    /\ dCall = NoAccessorCall

AdapterNext ==
    \/ \E codeLink \in BOOLEAN, datasetLink \in BOOLEAN : Construct(codeLink, datasetLink)
    \/ \E accessor \in Accessors, outcome \in FetchOutcomes : ReadMetadata(accessor, outcome)

(***************************************************************************)
(* src/api/auth.py: authenticate and consume_token                         *)
(***************************************************************************)

\* Bounds: the tokens _generate_token makes, and the steps of the clock,
\* each half of TOKEN_TTL_SECONDS.
MaxTokens == 2
MaxAuthTicks == 2

\* Bound standing for TOKEN_MAX_USES (1000 in the code): the uses a token
\* is issued with.
MaxUses == 3

TOKEN_TTL_SECONDS == 36000

TokenIds == 1..MaxTokens

DEFAULT_ADMIN_USERNAME == "ece30861defaultadminuser"

\* _users: the record and the password hash of each user.
Users ==
    [u \in {DEFAULT_ADMIN_USERNAME} |->
        [is_admin |-> TRUE, password_hash |-> "8e8ecae2"]]

\* _hash_password, on the passwords of the requests.
HashPassword(password) ==
    CASE password = "correcthorsebatterystaple" -> "8e8ecae2"
      [] password = "" -> "5f1c0e3a"
      [] OTHER -> "c1d2a7b4"

\* _verify_password
VerifyPassword(expected_hash, candidate) == HashPassword(candidate) = expected_hash

\* A variant that lets any caller in as an admin.
AdminFlagIgnored(stored_is_admin, asked_is_admin) == TRUE

\* Line 197, negated: the request of an admin account asks for admin access.
AdminFlagOk(stored_is_admin, asked_is_admin) ==
    ~(stored_is_admin /\ ~asked_is_admin)

AuthRequests ==
    [name : {DEFAULT_ADMIN_USERNAME, "mallory"}, is_admin : BOOLEAN,
     password : {"correcthorsebatterystaple", "", "hunter2"}]

NoToken == [has |-> FALSE, user |-> "", expires_at |-> 0, remaining_uses |-> 0]

\* issued_tokens.get(token) is truthy
Issued(tokens, token) == token \in TokenIds /\ tokens[token].has

\* A variant that is late by one instant.
ExpiredLate(info, now) == info.expires_at < now

\* Lines 121 and 139
Expired(info, now) == info.expires_at <= now

\* A variant that keeps the rejected token.
KeepToken(tokens, token) == tokens

\* issued_tokens.pop(token, None)
PopToken(tokens, token) == [tokens EXCEPT ![token] = NoToken]

NoAuthCall ==
    [op |-> "none", request |-> [name |-> "", is_admin |-> FALSE, password |-> ""],
     token |-> 0, status |-> 0, user |-> ""]

\* authenticate: PUT /authenticate. The token is one _generate_token has
\* not made before.
Authenticate(request) ==
    LET stored == request.name \in DOMAIN Users
        ok == /\ stored
              /\ AdminFlagOk(Users[request.name].is_admin, request.is_admin)
              /\ VerifyPassword(Users[request.name].password_hash, request.password)
        token == uIssued + 1
    IN /\ ok => uIssued < MaxTokens
       /\ uTokens' = IF ok
                     THEN [uTokens EXCEPT ![token] =
                              [has |-> TRUE, user |-> request.name,
                               expires_at |-> uNow + TOKEN_TTL_SECONDS,
                               remaining_uses |-> MaxUses]]
                     ELSE uTokens
       /\ uIssued' = IF ok THEN token ELSE uIssued
       /\ uCall' = [op |-> "authenticate", request |-> request,
                    token |-> IF ok THEN token ELSE 0,
                    status |-> IF ok THEN 200 ELSE 401,
                    user |-> IF ok THEN request.name ELSE ""]
       /\ UNCHANGED uNow
       /\ UNCHANGED nonAuthVars

\* consume_token; token 0 is a string that is no token.
ConsumeToken(token) ==
    /\ IF ~Issued(uTokens, token)
       THEN /\ uTokens' = uTokens
            /\ uCall' = [NoAuthCall EXCEPT !.op = "consume", !.token = token,
                                           !.status = 401]
       ELSE IF Expired(uTokens[token], uNow) \/ uTokens[token].remaining_uses <= 0
       THEN /\ uTokens' = PopToken(uTokens, token)
            /\ uCall' = [NoAuthCall EXCEPT !.op = "consume", !.token = token,
                                           !.status = 401]
       ELSE /\ uTokens' = [uTokens EXCEPT ![token].remaining_uses = @ - 1]
            /\ uCall' = [NoAuthCall EXCEPT !.op = "consume", !.token = token,
                                           !.status = 200,
                                           !.user = uTokens[token].user]
    /\ UNCHANGED <<uNow, uIssued>>
    /\ UNCHANGED nonAuthVars

\* Time passes.
AuthTick ==
    /\ uNow < MaxAuthTicks * (TOKEN_TTL_SECONDS \div 2)
    /\ uNow' = uNow + TOKEN_TTL_SECONDS \div 2
    /\ UNCHANGED <<uTokens, uIssued, uCall>>
    /\ UNCHANGED nonAuthVars

AuthInit ==
    /\ uNow = 0
    /\ uTokens = [t \in TokenIds |-> NoToken]
    /\ uIssued = 0
    /\ uCall = NoAuthCall

AuthNext ==
    \/ \E request \in AuthRequests : Authenticate(request)
    \/ \E token \in 0..MaxTokens : ConsumeToken(token)
    \/ AuthTick

(***************************************************************************)
(* src/api/reset.py: clear_artifacts and reset_registry                    *)
(***************************************************************************)

\* Bound: the names an entry of ARTIFACTS_DIR can have.
MaxDirEntries == 3

EntryNames == 1..MaxDirEntries

\* What a name of ARTIFACTS_DIR is: nothing, a regular file, a symbolic
\* link to a file, a subdirectory without entries, a subdirectory that
\* holds a file.
EntryKinds == {"none", "file", "symlink", "empty_subdir", "full_subdir"}

EmptyDir == [exists |-> TRUE, entries |-> [n \in EntryNames |-> "none"]]

MissingDir == [exists |-> FALSE, entries |-> [n \in EntryNames |-> "none"]]

\* is_token_valid
IsTokenValid(tokens, now, token) ==
    /\ Issued(tokens, token)
    /\ ~Expired(tokens[token], now)
    /\ tokens[token].remaining_uses > 0

\* Lines 72 to 78: os.rmdir for a directory, os.remove for anything else;
\* os.rmdir fails on a directory that holds something, the failure is
\* printed, and the entry stays.
RemoveEntry(kind) == IF kind = "full_subdir" THEN kind ELSE "none"

\* clear_artifacts: the directory it leaves.
ClearArtifacts(dir) ==
    IF dir.exists
    THEN [exists |-> TRUE,
          entries |-> [n \in EntryNames |-> RemoveEntry(dir.entries[n])]]
    ELSE EmptyDir

\* clear_dynamo_table: "cleared" when the table is configured and the scan
\* and the deletes go through, "skipped" when it returns early or swallows
\* an error.
ClearDynamoTable(table, outcome) ==
    IF outcome = "cleared" THEN "empty" ELSE table

NoResetCall == [op |-> "none", header |-> 0, status |-> 0]

\* reset_registry: DELETE /reset. header is the X-Authorization value of
\* the request, which the handler does not read; 0 stands for no header.
ResetRegistry(header, outcome) ==
    /\ gDir' = ClearArtifacts(gDir)
    /\ gTable' = ClearDynamoTable(gTable, outcome)
    /\ gCall' = [op |-> "reset", header |-> header, status |-> 200]
    /\ UNCHANGED nonResetVars

\* Something is put under ARTIFACTS_DIR, or stored in the table.
PutEntry(name, kind) ==
    /\ gDir.exists
    /\ kind # "none"
    /\ gDir' = [gDir EXCEPT !.entries[name] = kind]
    /\ gTable' = "items"
    /\ gCall' = [NoResetCall EXCEPT !.op = "put"]
    /\ UNCHANGED nonResetVars

\* ARTIFACTS_DIR is removed, as on a new /tmp.
RemoveDir ==
    /\ gDir.exists
    /\ gDir' = MissingDir
    /\ gCall' = [NoResetCall EXCEPT !.op = "rmdir"]
    /\ UNCHANGED gTable
    /\ UNCHANGED nonResetVars

ResetInit ==
    /\ gDir = EmptyDir
    /\ gTable = "empty"
    /\ gCall = NoResetCall

ResetNext ==
    \/ \E header \in 0..MaxTokens, outcome \in {"cleared", "skipped"} :
           ResetRegistry(header, outcome)
    \/ \E name \in EntryNames, kind \in EntryKinds : PutEntry(name, kind)
    \/ RemoveDir

(***************************************************************************)
(* src/api/artifact_routes.py: create, update, delete and list             *)
(***************************************************************************)

VALID_TYPES == {"model", "dataset", "code"}

\* The type and URL of the create requests; both URLs end in the segment
\* "bert". "plugin" is no artifact type.
CreateRequests ==
    {<<"model", "https://hf.co/a/bert">>, <<"model", "https://hf.co/b/bert">>,
     <<"dataset", "https://hf.co/a/bert">>, <<"code", "https://hf.co/b/bert">>,
     <<"plugin", "https://hf.co/a/bert">>}

\* Lines 255-256: the id is the start of the MD5 digest of "type:url";
\* the digests of different requests are taken to differ. The numbers
\* stand for the digests in their lexicographic order.
ArtifactIdOf(type, url) ==
    CASE <<type, url>> = <<"model", "https://hf.co/a/bert">> -> 3
      [] <<type, url>> = <<"model", "https://hf.co/b/bert">> -> 1
      [] <<type, url>> = <<"dataset", "https://hf.co/a/bert">> -> 2
      [] <<type, url>> = <<"code", "https://hf.co/b/bert">> -> 4
      [] OTHER -> 5

\* sorted(os.listdir(ARTIFACTS_DIR)): the ids in the order of their files.
StoreIds == <<1, 2, 3, 4>>

\* Lines 259-263: the last segment of the URL.
NameOfUrl(url) == "bert"

NoArtifact == [has |-> FALSE, type |-> "", name |-> "", url |-> ""]

\* iter_all_artifacts: the stored ids, in the order of the file names.
IterAllArtifacts(exists, store) ==
    IF exists THEN SelectSeq(StoreIds, LAMBDA id : store[id].has) ELSE << >>

\* The queries of a listing: a name, and the types, {} when there are none.
Queries ==
    [name : {"*", "bert", "t5"}, types : {{}, {"model"}, {"plugin"}}]

\* The listings: up to two queries, the second from the wildcard queries
\* and the query of a name.
QueryLists ==
    {<< >>} \cup {<<q>> : q \in Queries}
    \cup {<<q, r>> : q \in Queries,
                     r \in {x \in Queries :
                              \/ x.name = "*"
                              \/ x.name = "bert" /\ x.types = {}}}

\* Line 110: the smallest of the matching ids.
SmallestId(ids) == CHOOSE id \in ids : \A o \in ids : id <= o

\* list_artifacts, lines 63-118: the loop over the queries from query i
\* on, seen the ids the wildcard queries emitted and results the answer so
\* far.
RECURSIVE ListFrom(_, _, _, _, _)
ListFrom(store, query, i, seen, results) ==
    IF i > Len(query) THEN [status |-> 200, result |-> results]
    ELSE LET q == query[i]
             stored == IterAllArtifacts(TRUE, store)
             passes(id) == q.types = {} \/ store[id].type \in q.types
         IN IF q.types # {} /\ ~(q.types \subseteq VALID_TYPES)
            THEN [status |-> 400, result |-> << >>]
            ELSE IF q.name = "*"
            THEN LET new == SelectSeq(stored,
                                LAMBDA id : passes(id) /\ id \notin seen)
                 IN ListFrom(store, query, i + 1,
                             seen \cup {new[n] : n \in 1..Len(new)},
                             results \o new)
            ELSE LET matches == {stored[n] : n \in 1..Len(stored)}
                     named == {id \in matches :
                                 store[id].name = q.name /\ passes(id)}
                 IN IF named = {}
                    THEN [status |-> 404, result |-> << >>]
                    ELSE ListFrom(store, query, i + 1, seen,
                                  Append(results, SmallestId(named)))

\* list_artifacts: the answer; lines 55-61 are the case of a missing
\* directory.
ListArtifactsAnswer(exists, store, query) ==
    IF ~exists
    THEN IF \E i \in 1..Len(query) : query[i].name # "*"
         THEN [status |-> 404, result |-> << >>]
         ELSE [status |-> 200, result |-> << >>]
    ELSE ListFrom(store, query, 1, {}, << >>)

NoRouteCall ==
    [op |-> "none", status |-> 0, id |-> 0, type |-> "", url |-> "",
     query |-> << >>, result |-> << >>]

\* list_artifacts: POST /artifacts
ListArtifacts(query) ==
    /\ kCall' = [NoRouteCall EXCEPT
                   !.op = "list", !.query = query,
                   !.status = ListArtifactsAnswer(kExists, kStore, query).status,
                   !.result = ListArtifactsAnswer(kExists, kStore, query).result]
    /\ UNCHANGED <<kExists, kStore>>
    /\ UNCHANGED nonRouteVars

\* Lines 266-270: some stored artifact has the type and the URL.
IsDuplicate(store, stored, type, url) ==
    \E n \in 1..Len(stored) :
        store[stored[n]].type = type /\ store[stored[n]].url = url

\* create_artifact: POST /artifact/{artifact_type}; store_artifact makes
\* the directory when it is missing.
CreateArtifact(type, url) ==
    LET id == ArtifactIdOf(type, url)
        status == IF type \notin VALID_TYPES THEN 400
                  ELSE IF IsDuplicate(kStore, IterAllArtifacts(kExists, kStore),
                                      type, url)
                  THEN 409 ELSE 201
    IN /\ kCall' = [NoRouteCall EXCEPT !.op = "create", !.status = status,
                                       !.id = id, !.type = type, !.url = url]
       /\ IF status = 201
          THEN /\ kExists' = TRUE
               /\ kStore' = [kStore EXCEPT ![id] =
                                [has |-> TRUE, type |-> type,
                                 name |-> NameOfUrl(url), url |-> url]]
          ELSE UNCHANGED <<kExists, kStore>>
       /\ UNCHANGED nonRouteVars

\* update_artifact: PUT /artifacts/{artifact_type}/{id} with an artifact
\* whose metadata has the id body_id, the type body_type and the name, and
\* whose data has the url.
UpdateArtifact(type, id, body_id, body_type, name, url) ==
    LET status == IF type \notin VALID_TYPES THEN 400
                  ELSE IF ~(kExists /\ kStore[id].has) THEN 404
                  ELSE IF kStore[id].type # type THEN 400
                  ELSE IF body_id # id \/ body_type # type THEN 400
                  ELSE 200
    IN /\ kCall' = [NoRouteCall EXCEPT !.op = "update", !.status = status,
                                       !.id = id, !.type = type, !.url = url]
       /\ kStore' = IF status = 200
                    THEN [kStore EXCEPT ![id] =
                             [has |-> TRUE, type |-> body_type,
                              name |-> name, url |-> url]]
                    ELSE kStore
       /\ UNCHANGED kExists
       /\ UNCHANGED nonRouteVars

\* delete_artifact: DELETE /artifacts/{artifact_type}/{id}
DeleteStoredArtifact(type, id) ==
    LET status == IF type \notin VALID_TYPES THEN 400
                  ELSE IF ~(kExists /\ kStore[id].has) THEN 404
                  ELSE IF kStore[id].type # type THEN 400
                  ELSE 200
    IN /\ kCall' = [NoRouteCall EXCEPT !.op = "delete", !.status = status,
                                       !.id = id, !.type = type]
       /\ kStore' = IF status = 200 THEN [kStore EXCEPT ![id] = NoArtifact]
                    ELSE kStore
       /\ UNCHANGED kExists
       /\ UNCHANGED nonRouteVars

\* ensure_artifact_dir
EnsureArtifactDir ==
    /\ kExists' = TRUE
    /\ kCall' = [NoRouteCall EXCEPT !.op = "mkdir"]
    /\ UNCHANGED kStore
    /\ UNCHANGED nonRouteVars

\* Nothing has made the directory ARTIFACTS_DIR names.
RouteInit ==
    /\ kExists = FALSE
    /\ kStore = [id \in 1..Len(StoreIds) |-> NoArtifact]
    /\ kCall = NoRouteCall

RouteNext ==
    \/ \E query \in QueryLists : ListArtifacts(query)
    \/ \E r \in CreateRequests : CreateArtifact(r[1], r[2])
    \/ \E id \in 1..Len(StoreIds), type \in {"model", "dataset"},
          body_id \in {1, 3}, body_type \in {"model", "dataset"},
          name \in {"bert", "t5"},
          url \in {"https://hf.co/a/bert", "https://hf.co/b/bert"} :
           UpdateArtifact(type, id, body_id, body_type, name, url)
    \/ \E id \in 1..Len(StoreIds), type \in {"model", "plugin"} :
           DeleteStoredArtifact(type, id)
    \/ EnsureArtifactDir

(***************************************************************************)
(* src/api/auth.py: consume_token on one token, from the threads of the    *)
(* pool that runs the synchronous dependencies                             *)
(***************************************************************************)

\* Bound: the threads of the pool.
MaxThreads == 2

Threads == 1..MaxThreads

\* Line 135: info = issued_tokens.get(token). The thread keeps the dict
\* even when another thread pops the token afterwards.
ConsumeGet(t) ==
    /\ cPc[t] = "idle"
    /\ cReturned <= MaxUses
    /\ cInfo' = [cInfo EXCEPT ![t] = cIssued]
    /\ cPc' = [cPc EXCEPT ![t] = "got"]
    /\ UNCHANGED <<cIssued, cRemaining, cRead, cReturned>>
    /\ UNCHANGED nonConsumeVars

\* Lines 136-146: the checks; the token is far from its expiry. A failed
\* check raises 401 and the call is over.
ConsumeCheck(t) ==
    /\ cPc[t] = "got"
    /\ IF ~cInfo[t]
       THEN /\ cPc' = [cPc EXCEPT ![t] = "idle"]
            /\ UNCHANGED cIssued
       ELSE IF cRemaining <= 0
       THEN /\ cPc' = [cPc EXCEPT ![t] = "idle"]
            /\ cIssued' = FALSE
       ELSE /\ cPc' = [cPc EXCEPT ![t] = "checked"]
            /\ UNCHANGED cIssued
    /\ UNCHANGED <<cRemaining, cInfo, cRead, cReturned>>
    /\ UNCHANGED nonConsumeVars

\* Line 148, first half: info["remaining_uses"] is loaded.
ConsumeLoad(t) ==
    /\ cPc[t] = "checked"
    /\ cRead' = [cRead EXCEPT ![t] = cRemaining]
    /\ cPc' = [cPc EXCEPT ![t] = "loaded"]
    /\ UNCHANGED <<cIssued, cRemaining, cInfo, cReturned>>
    /\ UNCHANGED nonConsumeVars

\* Lines 148-149: the difference is stored and the user is returned.
ConsumeStore(t) ==
    /\ cPc[t] = "loaded"
    /\ cRemaining' = cRead[t] - 1
    /\ cReturned' = cReturned + 1
    /\ cPc' = [cPc EXCEPT ![t] = "idle"]
    /\ cRead' = [cRead EXCEPT ![t] = 0]
    /\ UNCHANGED <<cIssued, cInfo>>
    /\ UNCHANGED nonConsumeVars

\* The token has just been issued (lines 206-210) and no call is running.
ConsumeInit ==
    /\ cIssued = TRUE
    /\ cRemaining = MaxUses
    /\ cPc = [t \in Threads |-> "idle"]
    /\ cInfo = [t \in Threads |-> FALSE]
    /\ cRead = [t \in Threads |-> 0]
    /\ cReturned = 0

ConsumeNext ==
    \/ \E t \in Threads : ConsumeGet(t)
    \/ \E t \in Threads : ConsumeCheck(t)
    \/ \E t \in Threads : ConsumeLoad(t)
    \/ \E t \in Threads : ConsumeStore(t)

(***************************************************************************)
(* src/api/artifact_store.py: store_artifact from two requests and         *)
(* _load_artifact from a third, on the file of one artifact id             *)
(***************************************************************************)

\* The two calls of store_artifact.
Writers == {"first", "second"}

\* The documents: the one stored before, and the ones of two updates,
\* whose URLs differ in length.
WrittenDocs == {"short", "long"}

\* json.dump: the text of a document, each byte marked with its document.
JsonText(doc) ==
    CASE doc = "stored" -> <<"stored", "stored">>
      [] doc = "short" -> <<"short">>
      [] doc = "long" -> <<"long", "long", "long">>

\* A write of text at offset 0 of a file opened without O_APPEND: the
\* bytes beyond the text stay.
WriteAtStart(file, text) ==
    [i \in 1..(IF Len(file) > Len(text) THEN Len(file) ELSE Len(text)) |->
        IF i <= Len(text) THEN text[i] ELSE file[i]]

\* _load_artifact, lines 106-116: json.load gives the document when the
\* file is the text of one, and None on a JSONDecodeError.
LoadedDocument(file) ==
    IF \E doc \in WrittenDocs \cup {"stored"} : file = JsonText(doc)
    THEN CHOOSE doc \in WrittenDocs \cup {"stored"} : file = JsonText(doc)
    ELSE "None"

\* store_artifact, line 18: filepath.open("w") truncates the file.
StoreOpen(w, doc) ==
    /\ wPc[w] = "idle"
    /\ wPc' = [wPc EXCEPT ![w] = "open"]
    /\ wDoc' = [wDoc EXCEPT ![w] = doc]
    /\ wFile' = << >>
    /\ UNCHANGED wRead
    /\ UNCHANGED nonWriteVars

\* store_artifact, lines 18-19: json.dump fills the buffer of f, and the
\* end of the with block writes it out and closes f.
StoreClose(w) ==
    /\ wPc[w] = "open"
    /\ wPc' = [wPc EXCEPT ![w] = "done"]
    /\ wFile' = WriteAtStart(wFile, JsonText(wDoc[w]))
    /\ UNCHANGED <<wDoc, wRead>>
    /\ UNCHANGED nonWriteVars

\* _load_artifact: the file exists all along.
LoadStoredArtifact ==
    /\ wRead' = LoadedDocument(wFile)
    /\ UNCHANGED <<wFile, wPc, wDoc>>
    /\ UNCHANGED nonWriteVars

\* The artifact is stored and no request is running.
WriteInit ==
    /\ wFile = JsonText("stored")
    /\ wPc = [w \in Writers |-> "idle"]
    /\ wDoc = [w \in Writers |-> "stored"]
    /\ wRead = "stored"

WriteNext ==
    \/ \E w \in Writers, doc \in WrittenDocs : StoreOpen(w, doc)
    \/ \E w \in Writers : StoreClose(w)
    \/ LoadStoredArtifact

(***************************************************************************)
(* service/app/api/v1/ingest.py and the package repository                 *)
(***************************************************************************)

\* Bound: the package ids uuid4 makes; no id comes twice.
MaxPackages == 3

PackageIds == 1..MaxPackages

NoPackage == [has |-> FALSE, source |-> "", scored |-> FALSE]

\* create_from_hf: the package has meta = {"source": "hf"}, so no
\* repository URL and no command to run.
HfPackage == [repo_url |-> "no_url", run |-> "none"]

\* Line 18: metrics.rate_model(pkg) on the package of create_from_hf; no
\* request goes to GitHub for it.
IngestScores ==
    ServiceScores(
        RunReproducibilityCheck(HfPackage),
        MetricReviewednessFromMeta(HfPackage,
            CHOOSE answer \in GithubAnswers : TRUE, sCache, sNow).score)

\* Lines 20-22: some score other than latency is below 0.5.
BelowGate(scores) ==
    \E k \in DOMAIN scores : k # "latency" /\ scores[k] < 5000

\* ingest_hf: POST /ingest
IngestHf ==
    /\ iMade < MaxPackages
    /\ iMade' = iMade + 1
    /\ LET pid == iMade + 1
           created == [iDB EXCEPT ![pid] =
                          [has |-> TRUE, source |-> "hf", scored |-> FALSE]]
       IN IF BelowGate(IngestScores)
          THEN /\ iDB' = created
               /\ iCall' = [op |-> "ingest", status |-> 400, id |-> pid]
          ELSE /\ iDB' = [created EXCEPT ![pid].scored = TRUE]
               /\ iCall' = [op |-> "ingest", status |-> 200, id |-> pid]
    /\ UNCHANGED nonIngestVars

\* create_package: POST /packages
CreatePackage ==
    /\ iMade < MaxPackages
    /\ iMade' = iMade + 1
    /\ iDB' = [iDB EXCEPT ![iMade + 1] =
                  [has |-> TRUE, source |-> "upload", scored |-> FALSE]]
    /\ iCall' = [op |-> "create", status |-> 200, id |-> iMade + 1]
    /\ UNCHANGED nonIngestVars

\* rate of api/v1/rate.py: 404 for an unknown id, else the scores of
\* rate_model are stored with update_scores.
RatePackage(id) ==
    /\ IF iDB[id].has
       THEN /\ iDB' = [iDB EXCEPT ![id].scored = TRUE]
            /\ iCall' = [op |-> "rate", status |-> 200, id |-> id]
       ELSE /\ iDB' = iDB
            /\ iCall' = [op |-> "rate", status |-> 404, id |-> id]
    /\ UNCHANGED iMade
    /\ UNCHANGED nonIngestVars

\* PackageRepo.reset
RepoReset ==
    /\ iDB' = [id \in PackageIds |-> NoPackage]
    /\ iCall' = [op |-> "reset", status |-> 200, id |-> 0]
    /\ UNCHANGED iMade
    /\ UNCHANGED nonIngestVars

IngestInit ==
    /\ iDB = [id \in PackageIds |-> NoPackage]
    /\ iMade = 0
    /\ iCall = [op |-> "none", status |-> 0, id |-> 0]

IngestNext ==
    \/ IngestHf
    \/ CreatePackage
    \/ \E id \in PackageIds : RatePackage(id)
    \/ RepoReset

(***************************************************************************)
(* Specifications: every component starts idle, and each specification     *)
(* runs the operations of one component.                                   *)
(***************************************************************************)

Init ==
    /\ ReproInit
    /\ TreeInit
    /\ ReviewInit
    /\ AvailInit
    /\ RampInit
    /\ AdapterInit
    /\ AuthInit
    /\ ResetInit
    /\ RateInit
    /\ RouteInit
    /\ ConsumeInit
    /\ WriteInit
    /\ IngestInit

SpecRepro == Init /\ [][ReproNext]_vars

SpecTree == Init /\ [][TreeNext]_vars

SpecReview == Init /\ [][ReviewNext]_vars

SpecAvail == Init /\ [][AvailNext]_vars

SpecRate == Init /\ [][RateNext]_vars

SpecRampUp == Init /\ [][RampNext]_vars

SpecAdapter == Init /\ [][AdapterNext]_vars

SpecAuth == Init /\ [][AuthNext]_vars

SpecReset == Init /\ [][ResetNext]_vars

SpecRoutes == Init /\ [][RouteNext]_vars

SpecConsume == Init /\ [][ConsumeNext]_vars

SpecWrite == Init /\ [][WriteNext]_vars

SpecIngest == Init /\ [][IngestNext]_vars

(***************************************************************************)
(* Claims about ReproducibilityMetric                                      *)
(***************************************************************************)

ReproDone == rPc = "done"

\* The call ended without any step raising an exception.
ReproQuiet == ReproDone /\ rRaised = {}

PatternSet == {DEMO_FILE_PATTERNS[i] : i \in 1..Len(DEMO_FILE_PATTERNS)}

\* Some path of the tree is, character for character, an allowlisted name.
TreeHasExactDemo(tree) ==
    \E i \in 1..Len(tree) : tree[i] \in PatternSet

\* Some path of the tree is an allowlisted name when case is ignored.
TreeHasDemoIgnoringCase(tree) ==
    \E i \in 1..Len(tree) :
        tree[i] # NoPath /\ \E p \in PatternSet : Lower(tree[i]) = Lower(p)

\* The score table of the claim, with `detected` the claim's reading of
\* "a demo file is detected in the file tree".
ReproScoreTable(detected) ==
    ReproQuiet =>
        /\ rOutcome = "returned"
        /\ LookupGhMeta(rModel) = "none" => rScore = 0
        /\ (LookupGhMeta(rModel) # "none" /\ ~detected) => rScore = 0
        /\ (LookupGhMeta(rModel) # "none" /\ detected /\ ~rModel.clone_url)
              => rScore = 500
        /\ rCloned = "fail" => rScore = 500
        /\ (rCloned = "ok" /\ rRuns["zero"] > 0) => rScore = 1000
        /\ (rCloned = "ok" /\ rRuns["zero"] = 0) => rScore = 500

C2_ExceptionsGiveHalf ==
    (ReproDone /\ rRaised # {}) => (rOutcome = "returned" /\ rScore = 500)

(***************************************************************************)
(* Claims about TreeScoreMetric and the artifact store                     *)
(***************************************************************************)

\* A step in which TreeScoreMetric.evaluate returns.
TreeReturns == tCall' # tCall /\ tCall'.op = "tree"

DeclaresParent(child) == ExtractParentModels(child) # << >>

\* The stored artifacts of type "model" whose name matches a parent of the
\* child and whose stored net_score is positive.
PositiveParents(fs, child) ==
    {i \in ArtifactIds :
        /\ fs[i].kind = "doc"
        /\ fs[i].type = "model"
        /\ \E k \in 1..Len(ExtractParentModels(child)) :
               MatchesParent(fs[i].name, ExtractParentModels(child)[k])
        /\ fs[i].mj \in {"dict", "str"}
        /\ fs[i].num
        /\ fs[i].net > 0}

RECURSIVE SumNet(_, _)
SumNet(fs, ids) ==
    IF ids = {} THEN 0
    ELSE LET i == CHOOSE x \in ids : TRUE
         IN fs[i].net + SumNet(fs, ids \ {i})

\* score is total / n rounded to 2 decimals: a multiple of 0.01 that is at
\* most 0.005 away from the mean.
IsRounded2(score, total, n) ==
    /\ score % 10 = 0
    /\ 2 * (n * score - total) <= 10 * n
    /\ 2 * (total - n * score) <= 10 * n

IsMeanOfParents(score, fs, child) ==
    IF PositiveParents(fs, child) = {} THEN score = 0
    ELSE IsRounded2(score, SumNet(fs, PositiveParents(fs, child)),
                    Cardinality(PositiveParents(fs, child)))

\* C3 (as stated): whenever evaluate returns for a model that declares a
\* parent, the result is the mean, rounded to 2 decimals, of the positive
\* stored net_score of the matching model artifacts, files that cannot be
\* read as an artifact being skipped; 0.0 when there is none.
C3_AsStated ==
    [][(TreeReturns /\ DeclaresParent(tCall'.child))
           => IsMeanOfParents(tCall'.score, files, tCall'.child)]_vars

\* The same statement for directories in which every file can be decoded
\* as text.
C3_MeanWhenAllFilesDecodable ==
    [][(/\ TreeReturns
        /\ DeclaresParent(tCall'.child)
        /\ \A i \in ArtifactIds : files[i].kind # "undecodable")
           => IsMeanOfParents(tCall'.score, files, tCall'.child)]_vars

\* C4: evaluate writes no file; a model that declares a parent gets 0.0
\* when no matching stored model has a positive net_score at the time of
\* the call; and no later change of the store changes a returned result.
C4_UsesOnlyPersistedScores ==
    [][/\ TreeReturns => files' = files
       /\ (/\ TreeReturns
           /\ DeclaresParent(tCall'.child)
           /\ PositiveParents(files, tCall'.child) = {}) => tCall'.score = 0
       /\ files' # files => tCall' = tCall]_vars

\* A result of 0.0 stands although a matching parent has been stored with
\* a positive net_score since, in a directory evaluate can scan to the end.
C4_Witness ==
    /\ tCall.op = "tree"
    /\ DeclaresParent(tCall.child)
    /\ tCall.score = 0
    /\ PositiveParents(files, tCall.child) # {}
    /\ \A i \in ArtifactIds : files[i].kind # "undecodable"

\* C5 (as stated): every result of evaluate lies in [0.0, 1.0].
C5_AsStated == tCall.op = "tree" => tCall.score \in 0..1000

\* C9 (as stated): once rate_model has answered with a rating for the
\* artifact, the stored record of the artifact carries that net_score.
C9_AsStated ==
    (tCall.op = "rate" /\ tCall.status = 200)
        => /\ files[tCall.id].kind = "doc"
           /\ files[tCall.id].mj \in {"dict", "str"}
           /\ files[tCall.id].num
           /\ files[tCall.id].net = tCall.score

(***************************************************************************)
(* Claims about ReviewednessMetric and AvailabilityMetric                  *)
(***************************************************************************)

\* The pairs a and b stand for the same number.
SameValue(a, b) == a[2] > 0 /\ b[2] > 0 /\ a[1] * b[2] = b[1] * a[2]

\* C6 (as stated): evaluate returns -1.0 when the model has no GitHub
\* metadata, and -1.0 when the metadata holds no pull request (the list is
\* missing or empty).
C6_AsStated ==
    (/\ vCall.op = "review"
     /\ (vCall.model.gh \in {"falsy", "nokey"} \/ vCall.model.prs = << >>))
        => SameValue(vCall.result, <<-1, 1>>)

MergedPRs(prs) == {i \in 1..Len(prs) : prs[i].merged}

ReviewedPRs(prs) ==
    {i \in MergedPRs(prs) :
        \/ prs[i].comments > 0
        \/ prs[i].review_comments > 0
        \/ prs[i].reviewers
        \/ prs[i].teams}

RECURSIVE OnlyMerged(_)
OnlyMerged(prs) ==
    IF prs = << >> THEN << >>
    ELSE IF Head(prs).merged THEN <<Head(prs)>> \o OnlyMerged(Tail(prs))
    ELSE OnlyMerged(Tail(prs))

\* C7: for a non-empty list of pull requests the result is the number of
\* merged PRs with comments > 0, review_comments > 0, a requested reviewer
\* or a requested team, over the number of merged PRs; it is 0.0 when no
\* PR is merged; and it is the result for the list without its unmerged
\* PRs.
C7_ReviewedOverMerged ==
    (vCall.op = "review" /\ vCall.model.gh = "prs" /\ vCall.model.prs # << >>)
        => /\ IF MergedPRs(vCall.model.prs) = {}
              THEN SameValue(vCall.result, <<0, 1>>)
              ELSE SameValue(vCall.result,
                             <<Cardinality(ReviewedPRs(vCall.model.prs)),
                               Cardinality(MergedPRs(vCall.model.prs))>>)
           /\ SameValue(vCall.result,
                        Reviewedness([vCall.model EXCEPT
                                          !.prs = OnlyMerged(vCall.model.prs)]))

\* An unmerged PR with comments next to a merged PR nobody reviewed: 0 of 1.
C7_Witness ==
    /\ vCall.op = "review"
    /\ vCall.model.gh = "prs"
    /\ Len(vCall.model.prs) = 2
    /\ ~vCall.model.prs[1].merged
    /\ vCall.model.prs[1].comments > 0
    /\ vCall.model.prs[2].merged
    /\ ReviewedPRs(vCall.model.prs) = {}
    /\ SameValue(vCall.result, <<0, 1>>)

\* The links that exist, and those of them whose metadata is present.
ExistingLinks(m) ==
    {l \in {"code", "dataset"} :
        \/ l = "code" /\ m.codeLink = "url"
        \/ l = "dataset" /\ m.datasetLink = "url"}

LinksWithMetadata(m) ==
    {l \in ExistingLinks(m) :
        \/ l = "code" /\ m.github_metadata = "dict"
        \/ l = "dataset" /\ m.dataset_metadata = "dict"}

\* C8: with at least one link the result is (existing links with metadata)
\* over (existing links); with none it is 0.7 when the HuggingFace metadata
\* has nonzero downloads or likes and 0.0 otherwise; the denominator is
\* never zero.
C8_SuccessesOverApplicable ==
    aCall.op = "availability"
        => /\ aCall.result[2] > 0
           /\ IF ExistingLinks(aCall.model) # {}
              THEN SameValue(aCall.result,
                             <<Cardinality(LinksWithMetadata(aCall.model)),
                               Cardinality(ExistingLinks(aCall.model))>>)
              ELSE IF /\ aCall.model.hf
                      /\ (aCall.model.downloads = "positive"
                          \/ aCall.model.likes = "positive")
                   THEN SameValue(aCall.result, <<7, 10>>)
                   ELSE SameValue(aCall.result, <<0, 1>>)

\* Both links exist, the GitHub fetch failed, the dataset fetch succeeded:
\* 1 of 2.
C8_Witness ==
    /\ aCall.op = "availability"
    /\ aCall.model.codeLink = "url"
    /\ aCall.model.github_metadata = "none"
    /\ aCall.model.datasetLink = "url"
    /\ aCall.model.dataset_metadata = "dict"
    /\ aCall.result = <<1, 2>>

(***************************************************************************)
(* Claims about rate_model of the service                                  *)
(***************************************************************************)

\* C10 (as stated): every call of rate_model returns a rating, also when a
\* metric raises while the scores are put together.
C10_AsStated == sCall.op = "rate" => sCall.status = "returned"

\* When no metric raises, rate_model returns the ten scores.
C10_ReturnsWhenNoMetricRaises ==
    (sCall.op = "rate" /\ sCall.status = "returned")
        => /\ sCall.scores.reproducibility = RunReproducibilityCheck(sCall.pkg)
           /\ sCall.scores.reviewedness \in 0..10000
           /\ sCall.scores.treescore = 7000

(***************************************************************************)
(* Claims about RampUpMetric and about repeated evaluation                 *)
(***************************************************************************)

\* C11 (as stated): two calls of evaluate in a row on the same artifact,
\* its metadata unchanged, return the same score (RampUpMetric).
C11_AsStated ==
    [][(/\ pCall.op = "rampup"
        /\ pCall'.op = "rampup"
        /\ pCall'.model = pCall.model) => pCall'.score = pCall.score]_vars

HasReadmeText(m) == m.readme = "str" /\ m.readme_len > 0

RateStep == sNow' = sNow

\* C12 (as stated): an evaluation changes no process-wide cache and no
\* directory outside an ephemeral workspace of its own.
C12_AsStated ==
    [][RateStep => (sCache' = sCache /\ sTmpRepro' = sTmpRepro)]_vars

\* The entry of the URL is there and its expiry time has not passed.
Fresh(url) == sCache[url].has /\ sNow <= sCache[url].exp

\* C13: a call for a URL whose entry was put at most 600 seconds ago
\* returns the value of the entry, sends nothing to GitHub and leaves the
\* cache as it is; a call that finds the entry expired removes it and
\* computes again: the entry is gone or new afterwards, and for a GitHub
\* URL a request was sent.
C13_CacheTtl ==
    [][(RateStep /\ sCall'.op = "rate" /\ sCall'.pkg.repo_url \in RepoUrls)
          => LET url == sCall'.pkg.repo_url
             IN /\ Fresh(url)
                    => /\ sCall'.status = "returned"
                       /\ sCall'.scores.reviewedness = sCache[url].value
                       /\ ~sCall'.requested
                       /\ sCache' = sCache
                /\ (sCache[url].has /\ ~Fresh(url))
                    => /\ sCache'[url] = NoEntry
                          \/ sCache'[url].exp = sNow + CacheTtl
                       /\ url = "valid_url" => sCall'.requested]_vars

\* A rating served from the cache exactly 600 seconds after the entry was
\* put: no request, the cached 0.9.
C13_Witness ==
    /\ sCall.op = "rate"
    /\ sCall.pkg.repo_url = "valid_url"
    /\ ~sCall.requested
    /\ sCache["valid_url"].has
    /\ sCache["valid_url"].exp = sNow
    /\ sNow = CacheTtl
    /\ sCall.scores.reviewedness = 9000

(***************************************************************************)
(* Claims about ModelPackageAdapter                                        *)
(***************************************************************************)

\* C14: every read of an accessor returns; it returns the empty mapping
\* when the link is absent, and when the fetch it makes raises or yields
\* nothing.
C14_AccessorsNeverRaise ==
    [][dCall'.op \in Accessors
          => /\ dCall'.status = "returned"
             /\ (dAdapter.cache[dCall'.op] = "unset"
                 /\ ~HasLink(dAdapter, dCall'.op)) => dCall'.value = "empty"
             /\ dCall'.fetch \in {"raise", "none", "empty"}
                    => dCall'.value = "empty"]_vars

\* The fetch of the GitHub metadata raised, and the accessor returned {}.
C14_Witness ==
    /\ dCall.op = "github_metadata"
    /\ dAdapter.codeLink
    /\ dCall.fetch = "raise"
    /\ dCall.status = "returned"
    /\ dCall.value = "empty"

(***************************************************************************)
(* Claims about src/api/auth.py                                            *)
(***************************************************************************)

\* A step of consume_token, for the token the call names.
ConsumeStep == uNow' = uNow /\ uCall'.op = "consume"

\* A step of authenticate.
AuthenticateStep == uNow' = uNow /\ uCall'.op = "authenticate"

\* C16: a token is issued with TOKEN_MAX_USES uses and an expiry of
\* TOKEN_TTL_SECONDS after its issue; neither grows afterwards; and
\* consume_token succeeds only on an issued token, strictly before its
\* expiry, and then lowers remaining_uses by exactly one and returns the
\* token's user. So a token serves at most TOKEN_MAX_USES calls.
C16_BoundedUses ==
    [][/\ \A t \in TokenIds :
            /\ (~uTokens[t].has /\ uTokens'[t].has) =>
                   /\ uTokens'[t].expires_at = uNow + TOKEN_TTL_SECONDS
                   /\ uTokens'[t].remaining_uses = MaxUses
            /\ (uTokens[t].has /\ uTokens'[t].has) =>
                   /\ uTokens'[t].expires_at = uTokens[t].expires_at
                   /\ uTokens'[t].user = uTokens[t].user
                   /\ uTokens'[t].remaining_uses <= uTokens[t].remaining_uses
                   /\ uTokens'[t].remaining_uses >= 0
            /\ ~(t > uIssued /\ uTokens[t].has)
       /\ (ConsumeStep /\ uCall'.status = 200) =>
            LET t == uCall'.token
            IN /\ Issued(uTokens, t)
               /\ uNow < uTokens[t].expires_at
               /\ uTokens[t].remaining_uses > 0
               /\ uTokens'[t].has
               /\ uTokens'[t].remaining_uses = uTokens[t].remaining_uses - 1
               /\ uCall'.user = uTokens[t].user
               /\ \A o \in TokenIds \ {t} : uTokens'[o] = uTokens[o]
      ]_vars

\* The last use of a token: it succeeded and left no use.
C16_Witness ==
    /\ uCall.op = "consume"
    /\ uCall.status = 200
    /\ uCall.token \in TokenIds
    /\ uTokens[uCall.token].has
    /\ uTokens[uCall.token].remaining_uses = 0

\* C17: consume_token on an expired or used-up token answers 401 and
\* removes the token; on a token that was never issued (or was removed)
\* it answers 401 and leaves issued_tokens as it was.
C17_RejectsAndRemoves ==
    [][ConsumeStep =>
          LET t == uCall'.token
          IN /\ (Issued(uTokens, t)
                 /\ (uTokens[t].expires_at <= uNow
                     \/ uTokens[t].remaining_uses <= 0)) =>
                    /\ uCall'.status = 401
                    /\ ~uTokens'[t].has
                    /\ \A o \in TokenIds \ {t} : uTokens'[o] = uTokens[o]
             /\ ~Issued(uTokens, t) =>
                    /\ uCall'.status = 401
                    /\ uTokens' = uTokens
      ]_vars

\* A token that was issued is rejected and gone, while another one is
\* still there.
C17_Witness ==
    /\ uCall.op = "consume"
    /\ uCall.status = 401
    /\ uCall.token \in 1..uIssued
    /\ ~uTokens[uCall.token].has
    /\ \E o \in TokenIds : uTokens[o].has

\* C18: authenticate issues a token exactly when the user exists, the
\* password verifies and the request of an admin account asks for admin
\* access; otherwise it answers 401 and issues nothing. A success adds one
\* token that was never issued before and leaves the others as they were.
C18_IssuesOnlyForVerifiedUser ==
    [][AuthenticateStep =>
          LET r == uCall'.request
              ok == /\ r.name = DEFAULT_ADMIN_USERNAME
                    /\ r.password = "correcthorsebatterystaple"
                    /\ r.is_admin
          IN /\ uCall'.status = (IF ok THEN 200 ELSE 401)
             /\ ~ok => uTokens' = uTokens
             /\ ok => /\ uCall'.token \in TokenIds
                      /\ uCall'.token > uIssued
                      /\ ~uTokens[uCall'.token].has
                      /\ uTokens'[uCall'.token].has
                      /\ uTokens'[uCall'.token].user = r.name
                      /\ \A o \in TokenIds \ {uCall'.token} :
                             uTokens'[o] = uTokens[o]
      ]_vars

\* A second token was issued while the first is still valid.
C18_Witness ==
    /\ uCall.op = "authenticate"
    /\ uCall.status = 200
    /\ uCall.token = 2
    /\ uTokens[1].has
    /\ uTokens[1].expires_at > uNow
    /\ uTokens[1].remaining_uses > 0
    /\ uTokens[2].has

(***************************************************************************)
(* Claims about src/api/reset.py                                           *)
(***************************************************************************)

\* C19: a request to DELETE /reset that carries no valid X-Authorization
\* token leaves the stored artifacts as they were.
C19_AsStated ==
    [][(gCall'.op = "reset" /\ ~IsTokenValid(uTokens, uNow, gCall'.header)) =>
           (gDir' = gDir /\ gTable' = gTable)]_vars

\* C20: after clear_artifacts the artifacts directory exists and holds
\* no entry, whatever it held before.
C20_AsStated ==
    [][gCall'.op = "reset" => gDir' = EmptyDir]_vars

(***************************************************************************)
(* The order of the steps of ReproducibilityMetric.evaluate                *)
(***************************************************************************)

\* C27: within one call of evaluate, a clone is attempted only after a demo
\* file was detected in the file tree of the metadata and a clone URL is
\* there; demos are executed only after a clone that succeeded; at most 5
\* candidates are executed; and none is executed after one exited with
\* code zero.
C27_StepsInOrder ==
    /\ [](/\ rCloned # "no" =>
                /\ LookupGhMeta(rModel) \in {"priv", "pub"}
                /\ TreeHasDemoIgnoringCase(rModel.tree)
                /\ rModel.clone_url
          /\ rPc \in {"find", "exec"} => rCloned = "ok"
          /\ Executed(rRuns) > 0 => rCloned = "ok"
          /\ Executed(rRuns) <= 5
          /\ rRuns["zero"] <= 1)
    /\ [][/\ rCloned' # rCloned => rPc = "clone"
          /\ rRuns' # rRuns => (rPc = "exec" /\ rRuns["zero"] = 0)]_vars

\* Six files of the clone match, five are executed and the fifth exits
\* with code zero.
C27_Witness ==
    /\ rPc = "done"
    /\ rCloned = "ok"
    /\ rCands = 5
    /\ Executed(rRuns) = 5
    /\ rRuns["zero"] = 1

(***************************************************************************)
(* Claims about src/api/artifact_routes.py                                 *)
(***************************************************************************)

StoredIds == {id \in 1..Len(StoreIds) : kExists /\ kStore[id].has}

\* No two stored artifacts have the same type and URL.
NoTwoWithTypeAndUrl ==
    \A i, j \in StoredIds :
        (kStore[i].type = kStore[j].type /\ kStore[i].url = kStore[j].url)
            => i = j

\* C21: a create for a type and URL that a stored artifact has answers 409
\* and stores nothing, and the store never holds two artifacts with the
\* same type and URL.
C21_AsStated ==
    /\ []NoTwoWithTypeAndUrl
    /\ [][(kCall'.op = "create"
           /\ \E id \in StoredIds :
                 kStore[id].type = kCall'.type /\ kStore[id].url = kCall'.url)
          => (kCall'.status = 409 /\ kStore' = kStore)]_vars

\* C28: a create that answers 201 writes under an id that was not stored
\* immediately before the call.
C28_AsStated ==
    [][(kCall'.op = "create" /\ kCall'.status = 201)
          => kCall'.id \notin StoredIds]_vars

\* The stored artifacts that pass the type filter of a query.
PassingFilter(q) ==
    {id \in StoredIds : q.types = {} \/ kStore[id].type \in q.types}

\* The ids of a set, smallest first.
RECURSIVE Ascending(_)
Ascending(ids) ==
    IF ids = {} THEN << >>
    ELSE LET least == CHOOSE id \in ids : \A o \in ids : id <= o
         IN <<least>> \o Ascending(ids \ {least})

\* The concatenation of the results of the queries from query i on, emitted
\* being the ids the earlier wildcard queries gave.
RECURSIVE Concatenation(_, _, _)
Concatenation(query, i, emitted) ==
    IF i > Len(query) THEN << >>
    ELSE IF query[i].name = "*"
    THEN Ascending(PassingFilter(query[i]) \ emitted)
             \o Concatenation(query, i + 1, emitted \cup PassingFilter(query[i]))
    ELSE Ascending({CHOOSE id \in PassingFilter(query[i]) :
                       /\ kStore[id].name = query[i].name
                       /\ \A o \in PassingFilter(query[i]) :
                              kStore[o].name = query[i].name => id <= o})
             \o Concatenation(query, i + 1, emitted)

ListsInvalidType(query) ==
    \E i \in 1..Len(query) : ~(query[i].types \subseteq VALID_TYPES)

NamedWithoutMatch(query) ==
    \E i \in 1..Len(query) :
        /\ query[i].name # "*"
        /\ ~\E id \in PassingFilter(query[i]) : kStore[id].name = query[i].name

\* C24: a listing fails with 400 when a query lists an invalid type and
\* with 404 when a named query has no match; otherwise it answers the
\* concatenation, in the order of the queries, of the results of the
\* queries.
C24_AsStated ==
    [][kCall'.op = "list" =>
          LET query == kCall'.query
          IN /\ (ListsInvalidType(query) /\ ~NamedWithoutMatch(query))
                    => kCall'.status = 400
             /\ (NamedWithoutMatch(query) /\ ~ListsInvalidType(query))
                    => kCall'.status = 404
             /\ (ListsInvalidType(query) /\ NamedWithoutMatch(query))
                    => kCall'.status \in {400, 404}
             /\ (~ListsInvalidType(query) /\ ~NamedWithoutMatch(query))
                    => /\ kCall'.status = 200
                       /\ kCall'.result = Concatenation(query, 1, {})
      ]_vars

(***************************************************************************)
(* Claims about rate_model of src/api/model.py                             *)
(***************************************************************************)

\* A step of GET /artifact/model/{id}/rate.
ModelRateStep == tCall'.op = "rate" /\ files' = files

\* C22: the rating answers 404 when no artifact of the id is stored, 400
\* when the stored artifact is no model, and 400 when the data of the
\* stored model has no url.
C22_AsStated ==
    [][ModelRateStep =>
          LET f == files[tCall'.id]
          IN /\ f.kind = "absent" => tCall'.status = 404
             /\ (f.kind = "doc" /\ f.type # "model") => tCall'.status = 400
             /\ (f.kind = "doc" /\ f.type = "model" /\ f.url < 0)
                    => tCall'.status = 400
      ]_vars

\* C23: whatever rating values the data of a stored model carries, the
\* net_score of its rating lies in [0.0, 1.0].
C23_AsStated ==
    [][(ModelRateStep /\ tCall'.status = 200) => tCall'.score \in 0..1000]_vars

(***************************************************************************)
(* Claims about concurrent calls of consume_token                          *)
(***************************************************************************)

\* C29: under every interleaving of the calls of consume_token on one
\* token, no more calls succeed than the token had uses when it was
\* issued, and remaining_uses is never negative.
C29_AsStated == cReturned <= MaxUses /\ cRemaining >= 0

(***************************************************************************)
(* Claims about concurrent writes and reads of one artifact file           *)
(***************************************************************************)

\* C25: after two calls of store_artifact on one id have both finished,
\* the file holds exactly one of their two documents, whole.
C25_AsStated ==
    (\A w \in Writers : wPc[w] = "done")
        => \E w \in Writers : wFile = JsonText(wDoc[w])

\* C26: a load of a stored artifact never gives None, whatever store_artifact
\* is doing to the file: it gives the document stored before or a new one.
C26_AsStated == wRead \in WrittenDocs \cup {"stored"}

(***************************************************************************)
(* Claims about ingest                                                     *)
(***************************************************************************)

\* C30: when ingest rejects a model with 400, the repository holds the
\* packages it held before the call.
C30_AsStated ==
    [][(iCall'.op = "ingest" /\ iCall'.status = 400) => iDB' = iDB]_vars

====
